---- MODULE Spec2Model ----
(***************************************************************************)
(* Verification model of the TTL cache and memoizing decorator of          *)
(* phase6_deployment/ch22_performance/main.py and of the JWT token codec    *)
(* of phase4_auth/ch14_jwt_auth and ch15_permissions.                       *)
(* Further sections model the item store of phase5_patterns/ch18_testing,   *)
(* the cached posts of phase3_database/ch13_nosql, the rate limiter of      *)
(* phase4_auth/ch16_security and the WebSocket ConnectionManager of         *)
(* phase5_patterns/ch20_websocket.                                          *)
(*                                                                         *)
(* Time is an integer clock `now` (time.time() in the cache, whole seconds  *)
(* in the token codec).  Python's None is the string "None"; a dict is a    *)
(* function whose DOMAIN is the set of keys present.                        *)
(***************************************************************************)
EXTENDS Integers, Sequences, FiniteSets, TLC

VARIABLES
    now,        \* the wall clock read by time.time() / datetime.now()
    store,      \* InMemoryCache._store : key -> [value, expires_at]
    hits,       \* InMemoryCache._hits
    misses,     \* InMemoryCache._misses
    calls,      \* the running invocations of cached(...).wrapper
    last,       \* the operation performed by the latest step and its result
    writer,     \* history: for each stored key, the call that wrote the entry
    cleared,    \* history: (key, expiry) removed by the latest clear(), key not set since
    raised,     \* history: the calls that raised, until the next call with
                \*          their arguments; clean: no set() of the key since
                \*          the failed call started
    ngets,      \* history: how many times get() has run since construction
    nsince,     \* history: how many times get() has run since the last clear()
    token,      \* the JWT handed out by the latest create_access_token
    given,      \* history: the data dict that token was issued for
    tdata,      \* the outcome of the latest get_current_user token decoding
    issued,     \* history: when and with which expires_delta token was issued
    fake_users_db,  \* ch15: the user store
    fake_items_db,  \* ch15: the item store
    held,       \* for each login name, the token its client got last
    deleted,    \* history: the names admin_delete_user has removed
    resp,       \* the outcome of the latest request to the ch15 app
    fake_db,    \* ch18: the dict get_db returns : id -> item
    id_counter, \* ch18: _id_counter["current"]
    workers,    \* ch18: the thread-pool threads inside create_item
    item_resp,  \* the outcome of the latest request to the ch18 app
    injected,   \* history: the dict the store in use started as
    created,    \* history: for each id a create returned, the item it was given
    removed,    \* history: the ids deleted from the store in use
    post_doc,   \* ch13: the version of the post's content in MongoDB, 0: no post
    post_cache, \* ch13: the Redis entry of the post
    post_reqs,  \* ch13: the requests for the post that are in flight
    post_settled,   \* history: the latest write whose handler has returned
    post_resp,  \* the outcome of the latest ch13 request that returned
    rate_limit_store,   \* ch16: client ip -> the timestamps recorded for it
    rate_threads,   \* ch16: the thread-pool threads inside rate_limit
    accepted,   \* history: the current_time of every request let through
    rate_resp,  \* the outcome of the latest request to /limited
    active_connections, \* ch20: the manager's dict, as its entry table
    ws_handlers,    \* ch20: websocket -> where its websocket_endpoint stands
    ws_open,    \* ch20: the websockets whose peer has not closed
    ws_last     \* ch20: what the latest completed broadcast did

cacheVars ==
    <<store, hits, misses, calls, writer, cleared, raised, ngets, nsince>>
authVars == <<token, given, tdata, issued>>
chainVars == <<fake_users_db, fake_items_db, held, deleted, resp>>
itemVars ==
    <<fake_db, id_counter, workers, item_resp, injected, created, removed>>
postVars == <<post_doc, post_cache, post_reqs, post_settled, post_resp>>
rateVars == <<rate_limit_store, rate_threads, accepted, rate_resp>>
wsVars == <<active_connections, ws_handlers, ws_open, ws_last>>
appVars == <<itemVars, postVars, rateVars, wsVars>>
baseVars == <<last, cacheVars, authVars, chainVars>>
\* what the steps of each of the other applications leave alone
itemFrame == <<now, baseVars, postVars, rateVars, wsVars>>
postFrame == <<baseVars, itemVars, rateVars, wsVars>>
rateFrame == <<baseVars, itemVars, postVars, wsVars>>
wsFrame == <<now, baseVars, itemVars, postVars, rateVars>>
vars == <<now, last, cacheVars, authVars, chainVars, appVars>>

-----------------------------------------------------------------------------
(* Bounds of the model *)

MaxTime == 1     \* the clock runs from 0 to MaxTime
MaxTtl == 1      \* ttl arguments of a direct set() range over 0..MaxTtl
MaxGets == 3     \* get() runs at most MaxGets times in a behaviour
CachedTtl == 1   \* the ttl given to @cached(ttl=...)
MaxMinutes == 16 \* the token clock runs from 0 to MaxMinutes
ClockStep == 31  \* the ch15 app's clock advances by so many minutes
MaxAuthTime == 31   \* the ch15 app's clock runs from 0 to MaxAuthTime
MaxItems == 4    \* create_item runs while fake_items_db is shorter
MaxId == 3       \* ch18: create_item runs while _id_counter is below MaxId
MaxVersion == 3  \* ch13: update_post runs while the content is below MaxVersion
PostClockStep == 30   \* ch13: the clock advances by so many seconds
MaxPostTime == 60     \* ch13: the clock runs from 0 to MaxPostTime
RATE_LIMIT_REQUESTS == 2        \* ch16: the configured limit
RATE_LIMIT_WINDOW_SECONDS == 2  \* ch16: the configured window
MaxRateTime == 3      \* ch16: the clock runs from 0 to MaxRateTime
MaxRequests == 4      \* ch16: at most so many requests are let through

None == "None"
Values == {None, "v1", "v2"}        \* values given to a direct set()
Results == {None, "v1"}             \* what a cached function may return
Exceptions == {"ValueError", "KeyError"}       \* what a cached function may raise
DirectKeys == {"k1", "k2"}          \* keys used by direct get/set callers
CallIds == {1, 2}                   \* slots of wrapper invocations in flight

-----------------------------------------------------------------------------
(* InMemoryCache: pure parts *)

\* get(): `time.time() < expires_at`
FreshBug(t, expires_at) == t <= expires_at
Fresh(t, expires_at) == t < expires_at

\* get(): a hit needs the key present and the entry not yet expired
CacheHit(st, k, t) == k \in DOMAIN st /\ Fresh(t, st[k].expires_at)

\* get(): the returned value; None stands for "absent"
GetReturn(st, k, t) == IF CacheHit(st, k, t) THEN st[k].value ELSE None

\* del self._store[key]
Remove(st, k) == [x \in DOMAIN st \ {k} |-> st[x]]

\* get(): a present but expired entry is deleted, nothing else changes
\* (StoreAfterGetSweeping: a get drops every expired entry it comes across)
StoreAfterGetSweeping(st, k, t) ==
    [x \in {y \in DOMAIN st : Fresh(t, st[y].expires_at)} |-> st[x]]
StoreAfterGet(st, k, t) ==
    IF k \in DOMAIN st /\ ~Fresh(t, st[k].expires_at) THEN Remove(st, k) ELSE st

\* set(): expires_at = time.time() + ttl
ExpiresAtBug(t, ttl) == t
ExpiresAt(t, ttl) == t + ttl

\* self._store[key] = (value, expires_at)
PutKeep(st, k, e) ==
    [x \in DOMAIN st \cup {k} |-> IF x = k /\ k \notin DOMAIN st THEN e ELSE st[x]]
Put(st, k, e) == [x \in DOMAIN st \cup {k} |-> IF x = k THEN e ELSE st[x]]

StoreAfterSet(st, k, v, ttl, t) ==
    Put(st, k, [value |-> v, expires_at |-> ExpiresAt(t, ttl)])

\* cleanup_expired(): the keys with now >= expires_at
ExpiredKeysBug(st, t) == {k \in DOMAIN st : t > st[k].expires_at}
ExpiredKeys(st, t) == {k \in DOMAIN st : t >= st[k].expires_at}

\* stats: total_requests and total_entries
StatsTotalRequests == hits + misses
StatsTotalEntries == Cardinality(DOMAIN store)

-----------------------------------------------------------------------------
(* cached(): key derivation *)

\* func.__name__ : f1 and f2 are two functions defined under the same name
FuncName(f) == IF f \in {"f1", "f2"} THEN "compute" ELSE f

IntArg(d) == [t |-> "int", v |-> d]
StrArg(s) == [t |-> "str", v |-> s]

\* repr() of an int or a str argument
Repr(x) == IF x.t = "int" THEN x.v ELSE "'" \o x.v \o "'"

RECURSIVE Join(_)
Join(s) == IF Len(s) = 0 THEN ""
           ELSE IF Len(s) = 1 THEN s[1]
           ELSE s[1] \o ", " \o Join(Tail(s))

\* f"{args}" : repr of the positional tuple
ReprTuple(args) ==
    IF Len(args) = 1 THEN "(" \o Repr(args[1]) \o ",)"
    ELSE "(" \o Join([i \in DOMAIN args |-> Repr(args[i])]) \o ")"

\* repr of one (name, value) pair and of the list of pairs
ReprItem(p) == "(" \o Repr(StrArg(p[1])) \o ", " \o Repr(p[2]) \o ")"
ReprList(items) == "[" \o Join([i \in DOMAIN items |-> ReprItem(items[i])]) \o "]"

\* the keyword names of the model in string order
KwOrder == <<"a", "b">>

\* sorted(kwargs.items()): the pairs ordered by name, whatever the call order
SortedItems(kwargs) ==
    LET present(n) == \E i \in DOMAIN kwargs : kwargs[i][1] = n
        names == SelectSeq(KwOrder, present)
        item(n) == kwargs[CHOOSE i \in DOMAIN kwargs : kwargs[i][1] = n]
    IN  [i \in DOMAIN names |-> item(names[i])]

\* key_source = f"{func.__name__}:{args}:{sorted(kwargs.items())}"
KeySourceNoArgs(f, args, kwargs) == FuncName(f) \o ":"
KeySource(f, args, kwargs) ==
    FuncName(f) \o ":" \o ReprTuple(args) \o ":" \o ReprList(SortedItems(kwargs))

\* hashlib.md5(...).hexdigest(), taken as collision free
Md5Hex(s) == "md5<" \o s \o ">"

CacheKey(f, args, kwargs) == Md5Hex(KeySource(f, args, kwargs))

\* the calls of the model: f1 with one positional argument and with two
\* keyword arguments given out of order, f2 with f1's positional argument
CallKinds ==
    { <<"f1", [args |-> <<IntArg("1")>>, kwargs |-> <<>>]>>,
      <<"f1", [args |-> <<>>,
               kwargs |-> << <<"b", IntArg("2")>>, <<"a", IntArg("1")>> >>]>>,
      <<"f2", [args |-> <<IntArg("1")>>, kwargs |-> <<>>]>> }

NoArgs == [args |-> <<>>, kwargs |-> <<>>]
KeyOf(f, al) == CacheKey(f, al.args, al.kwargs)

\* two argument lists denote the same call arguments (kwargs are a dict)
SameArgs(x, y) ==
    /\ x.args = y.args
    /\ {x.kwargs[i] : i \in DOMAIN x.kwargs} = {y.kwargs[i] : i \in DOMAIN y.kwargs}

-----------------------------------------------------------------------------
(* Token codec: create_access_token and the decoding in get_current_user.   *)
(* The clock counts minutes; jose compares whole seconds, so a token and    *)
(* the clock meet only on such boundaries.                                  *)

SECRET_KEY == "09d25e09"
OTHER_KEY == "e3b0c442"

\* timedelta(minutes=15), the default of create_access_token
DefaultExpireMinutes == 15
\* ACCESS_TOKEN_EXPIRE_MINUTES
AccessTokenExpireMinutes == 30

\* the HS256 signature of a payload under a key, taken as unforgeable: two
\* signatures are equal exactly when key and payload are
Sign(payload, key) == [alg |-> "HS256", key |-> key, payload |-> payload]

\* expires_delta: None, or a timedelta of so many minutes
NoDelta == [given |-> FALSE, minutes |-> 0]
Delta(m) == [given |-> TRUE, minutes |-> m]

\* `if expires_delta:` a timedelta is true unless it is zero
Truthy(delta) == delta.given /\ delta.minutes /= 0

\* create_access_token: expire = now + expires_delta, or now + 15 minutes
Expire(t, delta) ==
    IF Truthy(delta) THEN t + delta.minutes ELSE t + DefaultExpireMinutes

\* to_encode = data.copy(); to_encode.update({"exp": expire})
ToEncode(data, expire) == ("exp" :> expire) @@ data

\* jwt.encode(to_encode, key, algorithm=ALGORITHM)
JwtEncode(claims, key) == [payload |-> claims, sig |-> Sign(claims, key)]

CreateAccessToken(data, delta, t) ==
    JwtEncode(ToEncode(data, Expire(t, delta)), SECRET_KEY)

\* payload.get(name, default)
PayloadGet(payload, name, default) ==
    IF name \in DOMAIN payload THEN payload[name] ELSE default

\* jwt.decode: the signature must verify under the key and exp must not be
\* before the current time; the error otherwise
JwtDecodeErrorUnverified(tok, key, t) ==
    IF "exp" \in DOMAIN tok.payload /\ tok.payload["exp"] < t
    THEN "ExpiredSignatureError"
    ELSE "-"
JwtDecodeError(tok, key, t) ==
    IF tok.sig /= Sign(tok.payload, key) THEN "JWTError"
    ELSE IF "exp" \in DOMAIN tok.payload /\ tok.payload["exp"] < t
         THEN "ExpiredSignatureError"
    ELSE "-"

\* token_scopes = payload.get("scopes", [])
TokenScopesBug(payload) == <<>>
TokenScopes(payload) == PayloadGet(payload, "scopes", <<>>)

\* get_current_user, from jwt.decode to token_data: TokenData, or the 401
\* credentials_exception when decoding fails or the payload has no sub
DecodeTokenData(tok, t) ==
    LET err == JwtDecodeError(tok, SECRET_KEY, t)
        username == PayloadGet(tok.payload, "sub", None)
    IN  IF err /= "-" \/ username = None
        THEN [status |-> 401, error |-> IF err /= "-" THEN err ELSE "NoSub",
              username |-> None, scopes |-> <<>>]
        ELSE [status |-> 200, error |-> "-",
              username |-> username, scopes |-> TokenScopes(tok.payload)]

NoData == <<>>
NoToken == [payload |-> <<>>, sig |-> Sign(<<>>, "-")]
NoTokenData == [status |-> 0, error |-> "-", username |-> None, scopes |-> <<>>]

Subjects == {"alice", "bob"}
ScopeLists == {<<>>, <<"items:read">>, <<"items:write", "items:read">>}
\* the data dicts tokens are issued for: ch15 gives sub and scopes, ch14 sub
DataDicts ==
    {("sub" :> u) @@ ("scopes" :> sc) : u \in Subjects, sc \in ScopeLists}
        \cup {("sub" :> u) : u \in Subjects}
Deltas == {NoDelta, Delta(0), Delta(1), Delta(AccessTokenExpireMinutes)}

-----------------------------------------------------------------------------
(* ch15: the user store, login and the authorization chain                 *)

HTTP_200_OK == 200
HTTP_400_BAD_REQUEST == 400
HTTP_401_UNAUTHORIZED == 401
HTTP_403_FORBIDDEN == 403
HTTP_404_NOT_FOUND == 404

\* get_password_hash / verify_password: bcrypt, taken as collision free
GetPasswordHash(password) == "bcrypt<" \o password \o ">"
VerifyPassword(plain, hashed) == GetPasswordHash(plain) = hashed

\* fake_users_db as the module builds it
InitialUsers ==
    ("admin" :> [role |-> "admin", disabled |-> FALSE,
                 hashed_password |-> GetPasswordHash("admin1234"),
                 scopes |-> <<"items:read", "items:write", "admin">>])
    @@ ("user1" :> [role |-> "user", disabled |-> FALSE,
                    hashed_password |-> GetPasswordHash("user1234"),
                    scopes |-> <<"items:read", "items:write">>])
    @@ ("viewer1" :> [role |-> "viewer", disabled |-> FALSE,
                      hashed_password |-> GetPasswordHash("viewer1234"),
                      scopes |-> <<"items:read">>])

\* fake_items_db as the module builds it
InitialItems ==
    << [id |-> 1, owner |-> "user1"], [id |-> 2, owner |-> "admin"],
       [id |-> 3, owner |-> "viewer1"] >>

\* `x in list`
InList(x, list) == \E i \in DOMAIN list : list[i] = x

\* get_user: the record of username with its key, or None
NoUser == [username |-> None]
\* a lookup that still finds every user the store started with
GetUserStale(db, username) ==
    IF username \in DOMAIN InitialUsers
    THEN [username |-> username, role |-> InitialUsers[username].role,
          disabled |-> InitialUsers[username].disabled,
          hashed_password |-> InitialUsers[username].hashed_password,
          scopes |-> InitialUsers[username].scopes]
    ELSE NoUser
GetUser(db, username) ==
    IF username \in DOMAIN db
    THEN [username |-> username, role |-> db[username].role,
          disabled |-> db[username].disabled,
          hashed_password |-> db[username].hashed_password,
          scopes |-> db[username].scopes]
    ELSE NoUser

\* authenticate_user
AuthenticateUser(db, username, password) ==
    LET user == GetUser(db, username)
    IN  IF user = NoUser THEN NoUser
        ELSE IF ~VerifyPassword(password, user.hashed_password) THEN NoUser
        ELSE user

\* login: [scope for scope in form_data.scopes if scope in user.scopes]
GrantedScopesAsked(requested, user_scopes) == requested
GrantedScopes(requested, user_scopes) ==
    SelectSeq(requested, LAMBDA scope : InList(scope, user_scopes))

\* login: the token for an authenticated user
LoginToken(user, requested, t) ==
    CreateAccessToken(
        ("sub" :> user.username)
            @@ ("scopes" :> GrantedScopes(requested, user.scopes)),
        Delta(AccessTokenExpireMinutes), t)

\* the outcome of a dependency or of an endpoint: the HTTP status, which
\* error it is, the user handed to the endpoint, the name get_user was asked
\* for ("-": get_user was not called), and what the token decoded to
Outcome(status, detail, user, lookup, td) ==
    [status |-> status, detail |-> detail, user |-> user, lookup |-> lookup,
     decoded |-> td.status]

\* `for scope in security_scopes.scopes: if scope not in token_data.scopes`
MissingScope(required, token_scopes) ==
    \E i \in DOMAIN required : ~InList(required[i], token_scopes)

\* get_current_user after get_user: user.disabled, then the scope loop
CheckedUserScopeFirst(required, td, user) ==
    IF user = NoUser
    THEN Outcome(HTTP_401_UNAUTHORIZED, "credentials", None, td.username, td)
    ELSE IF MissingScope(required, td.scopes)
    THEN Outcome(HTTP_401_UNAUTHORIZED, "scope", None, td.username, td)
    ELSE IF user.disabled
    THEN Outcome(HTTP_400_BAD_REQUEST, "disabled", None, td.username, td)
    ELSE Outcome(HTTP_200_OK, "-", user.username, td.username, td)
CheckedUser(required, td, user) ==
    IF user = NoUser
    THEN Outcome(HTTP_401_UNAUTHORIZED, "credentials", None, td.username, td)
    ELSE IF user.disabled
    THEN Outcome(HTTP_400_BAD_REQUEST, "disabled", None, td.username, td)
    ELSE IF MissingScope(required, td.scopes)
    THEN Outcome(HTTP_401_UNAUTHORIZED, "scope", None, td.username, td)
    ELSE Outcome(HTTP_200_OK, "-", user.username, td.username, td)

\* get_current_user after the try block: token_data is td
\* (DecodedRevoking: a token whose user is gone or deactivated does not count
\* as decoded)
DecodedRevoking(db, required, td) ==
    IF td.status /= HTTP_200_OK
    THEN Outcome(HTTP_401_UNAUTHORIZED, "credentials", None, "-", td)
    ELSE IF GetUser(db, td.username) = NoUser
            \/ GetUser(db, td.username).disabled
    THEN Outcome(HTTP_401_UNAUTHORIZED, "credentials", None, "-",
                 [td EXCEPT !.status = HTTP_401_UNAUTHORIZED,
                            !.error = "JWTError"])
    ELSE CheckedUser(required, td, GetUser(db, td.username))
Decoded(db, required, td) ==
    IF td.status /= HTTP_200_OK
    THEN Outcome(HTTP_401_UNAUTHORIZED, "credentials", None, "-", td)
    ELSE CheckedUser(required, td, GetUser(db, td.username))

\* get_current_user with oauth2_scheme in front of it
GetCurrentUser(db, tok, required, t) ==
    IF tok = NoToken
    THEN Outcome(HTTP_401_UNAUTHORIZED, "not authenticated", None, "-",
                 NoTokenData)
    ELSE Decoded(db, required, DecodeTokenData(tok, t))

\* _role_checker after get_current_user gave current
RoleChecked(db, allowed_roles, current) ==
    IF current.status /= HTTP_200_OK THEN current
    ELSE IF db[current.user].role \notin allowed_roles
    THEN [current EXCEPT !.status = HTTP_403_FORBIDDEN,
                         !.detail = "role", !.user = None]
    ELSE current

\* role_required(allowed_roles)._role_checker
RoleCheckerAnyRole(db, tok, allowed_roles, t) ==
    GetCurrentUser(db, tok, <<>>, t)
RoleChecker(db, tok, allowed_roles, t) ==
    RoleChecked(db, allowed_roles, GetCurrentUser(db, tok, <<>>, t))

\* the protected endpoints: the scopes of Security(get_current_user, ...),
\* or the roles of role_required(...)
Endpoints ==
    {"read_users_me", "read_items", "create_item", "admin_list_users",
     "admin_delete_user", "admin_stats"}
RoleGated == {"admin_list_users", "admin_delete_user"}
RequiredScopes(ep) ==
    CASE ep = "read_items" -> <<"items:read">>
      [] ep = "create_item" -> <<"items:write">>
      [] ep = "admin_stats" -> <<"admin">>
      [] OTHER -> <<>>
AllowedRoles(ep) == {"admin"}

\* the dependency of an endpoint
Guard(ep, db, tok, t) ==
    IF ep \in RoleGated THEN RoleChecker(db, tok, AllowedRoles(ep), t)
    ELSE GetCurrentUser(db, tok, RequiredScopes(ep), t)

\* the conditions the dependencies test, each on its own
TokenPresent(tok) == tok /= NoToken
TokenValid(tok, t) ==
    /\ JwtDecodeError(tok, SECRET_KEY, t) = "-"
    /\ "sub" \in DOMAIN tok.payload
UserExists(db, tok) ==
    "sub" \in DOMAIN tok.payload /\ tok.payload["sub"] \in DOMAIN db
UserActive(db, tok) ==
    UserExists(db, tok) => ~db[tok.payload["sub"]].disabled
ScopeSatisfied(ep, tok) ==
    \A i \in DOMAIN RequiredScopes(ep) :
        InList(RequiredScopes(ep)[i], PayloadGet(tok.payload, "scopes", <<>>))
RoleSatisfied(ep, db, tok) ==
    (ep \in RoleGated /\ UserExists(db, tok))
        => db[tok.payload["sub"]].role \in AllowedRoles(ep)

\* the conditions in the order the dependencies test them, and those a
\* request fails
GuardOrder ==
    <<"TokenPresent", "TokenValid", "UserExists", "UserActive",
      "ScopeSatisfied", "RoleSatisfied">>
Holds(name, ep, db, tok, t) ==
    CASE name = "TokenPresent" -> TokenPresent(tok)
      [] name = "TokenValid" -> TokenValid(tok, t)
      [] name = "UserExists" -> UserExists(db, tok)
      [] name = "UserActive" -> UserActive(db, tok)
      [] name = "ScopeSatisfied" -> ScopeSatisfied(ep, tok)
      [] name = "RoleSatisfied" -> RoleSatisfied(ep, db, tok)
Failing(ep, db, tok, t) ==
    {i \in DOMAIN GuardOrder : ~Holds(GuardOrder[i], ep, db, tok, t)}
FirstOf(failing) ==
    IF failing = {} THEN 0
    ELSE CHOOSE i \in failing : \A j \in failing : i <= j

\* what the code raises where it tests a condition: status and error
FailureOf(name) ==
    CASE name = "TokenPresent" ->
            <<HTTP_401_UNAUTHORIZED, "not authenticated">>
      [] name = "TokenValid" -> <<HTTP_401_UNAUTHORIZED, "credentials">>
      [] name = "UserExists" -> <<HTTP_401_UNAUTHORIZED, "credentials">>
      [] name = "UserActive" -> <<HTTP_400_BAD_REQUEST, "disabled">>
      [] name = "ScopeSatisfied" -> <<HTTP_401_UNAUTHORIZED, "scope">>
      [] name = "RoleSatisfied" -> <<HTTP_403_FORBIDDEN, "role">>

\* create_item: the store after the body
ItemsAfterCreate(its, owner) ==
    Append(its, [id |-> Len(its) + 1, owner |-> owner])

\* admin_delete_user: the status of the body and the store after it
DeleteStatus(db, username, current) ==
    IF username = current THEN HTTP_400_BAD_REQUEST
    ELSE IF username \notin DOMAIN db THEN HTTP_404_NOT_FOUND
    ELSE HTTP_200_OK
UsersAfterDelete(db, username, current) ==
    IF DeleteStatus(db, username, current) = HTTP_200_OK
    THEN [x \in DOMAIN db \ {username} |-> db[x]]
    ELSE db

\* the clients of the model log in as admin and as user1; a login form
\* may also name nobody, or carry another user's password
Logins == {"admin", "user1"}
LoginNames == Logins \cup {"ghost"}
Passwords == {"admin1234", "user1234"}
ScopeRequests ==
    {<<"items:read">>, <<"admin", "items:write", "items:read">>}
\* the path parameter of an endpoint ("-": it has none)
PathParams(ep) == IF ep = "admin_delete_user" THEN LoginNames ELSE {"-"}
\* the response to a request: its status, its body (the endpoint that
\* answered, or which error it is), whether the token it carried had been
\* tampered with, the first condition of GuardOrder the request failed (0:
\* none) and whether it failed more than one
NoResponse ==
    [status |-> 0, body |-> "-", forged |-> FALSE, first |-> 0,
     masked |-> FALSE]

\* a token changed after it was issued: admin as subject, every scope and
\* a later expiry under the old signature; the old payload under a signature
\* that is not one, or under a signature made with another secret
AllScopes == <<"items:read", "items:write", "admin">>
Tampered(tok) ==
    { [tok EXCEPT !.payload =
          ("sub" :> "admin") @@ ("scopes" :> AllScopes)
              @@ ("exp" :> tok.payload["exp"] + AccessTokenExpireMinutes)],
      [tok EXCEPT !.sig = Sign(tok.payload, "-")],
      JwtEncode(tok.payload, OTHER_KEY) }

\* the tokens clients hold, and what a request can carry: nothing, a held
\* token, a held token tampered with, or a token that create_access_token
\* made just now for a dict without sub
HeldTokens == {held[u] : u \in Logins} \ {NoToken}
ForgedTokens == UNION {Tampered(tok) : tok \in HeldTokens}
Presentable ==
    {NoToken} \cup HeldTokens \cup ForgedTokens
        \cup {CreateAccessToken(("scopes" :> AllScopes), NoDelta, now)}

\* the user stores the endpoints and the environment can bring about: admin
\* cannot delete itself, every other login can be deleted, anyone deactivated
UserStores ==
    {[u \in (DOMAIN InitialUsers) \ gone |->
         [InitialUsers[u] EXCEPT !.disabled = u \in off]] :
        gone \in SUBSET (Logins \ {"admin"}), off \in SUBSET Logins}

-----------------------------------------------------------------------------
(* ch18: the item store and the bodies of its endpoints *)

HTTP_201_CREATED == 201
HTTP_422_UNPROCESSABLE == 422

\* len() of the names and descriptions a request can carry
StrLen(str) ==
    CASE str = "" -> 0
      [] str = "pen" -> 3
      [] str = "blue" -> 4
      [] OTHER -> 5

\* ItemCreate: name has 1 to 100 characters, description is None or has at
\* most 500, price is greater than 0
ValidItem(item) ==
    /\ StrLen(item.name) >= 1 /\ StrLen(item.name) <= 100
    /\ item.description = None \/ StrLen(item.description) <= 500
    /\ item.price > 0

\* the request bodies of POST /items/
ItemCreates ==
    [name : {"", "pen"}, description : {None, "blue"}, price : {0, 5}]

\* a dict[int, dict] is the sequence of its values in insertion order
NoItem == [id |-> 0, name |-> "", description |-> None, price |-> 0]
Ids(d) == {d[i].id : i \in DOMAIN d}
Has(d, item_id) == item_id \in Ids(d)
Lookup(d, item_id) ==
    IF Has(d, item_id)
    THEN d[CHOOSE i \in DOMAIN d : d[i].id = item_id] ELSE NoItem
\* db[item_id] = rec : a present key keeps its place, a new one goes last
Assign(d, item_id, rec) ==
    IF Has(d, item_id)
    THEN [i \in DOMAIN d |-> IF d[i].id = item_id THEN rec ELSE d[i]]
    ELSE Append(d, rec)
\* db.pop(item_id)  (PopAll: the pop empties the dict)
PopAll(d, item_id) == <<>>
Pop(d, item_id) == SelectSeq(d, LAMBDA rec : rec.id /= item_id)

\* the dict create_item stores for item under item_id
Stored(item_id, item) ==
    [id |-> item_id, name |-> item.name, description |-> item.description,
     price |-> item.price]

\* the stores a dependency override injects: the empty dict of the client
\* fixture and the dict of test_with_pre_populated_db
PrePopulated ==
    <<[id |-> 1, name |-> "preset", description |-> "blue", price |-> 9900],
      [id |-> 2, name |-> "second", description |-> None, price |-> 4500]>>
InjectedDbs == {<<>>, PrePopulated}

\* the path parameters of the requests
ItemIds == 1..MaxId

Workers == {1, 2}
IdleWorker == [pc |-> "idle", item |-> NoItem, tmp |-> 0, item_id |-> 0]

\* the outcome of a request to the item API: the endpoint, the item id in the
\* path (or the one assigned), the status, and the item or list in the body
NoItemResponse ==
    [op |-> "-", item_id |-> 0, status |-> 0, item |-> NoItem, items |-> <<>>,
     message |-> "-"]
ItemResponse(op, item_id, status) ==
    [NoItemResponse EXCEPT !.op = op, !.item_id = item_id, !.status = status]

-----------------------------------------------------------------------------
(* ch13: one post in MongoDB and its copy in Redis.  The content of the     *)
(* post is a version number that every update_post raises; Redis and        *)
(* MongoDB answer every command (the `except Exception: pass` branches are  *)
(* not taken).                                                              *)

REDIS_CACHE_TTL == 60
HTTP_204_NO_CONTENT == 204

NoPost == 0
NoCache == [content |-> NoPost, expires_at |-> 0]

\* redis_client.get(cache_key): the value of a key that has not expired
RedisGet(entry, t) ==
    IF entry.content /= NoPost /\ t < entry.expires_at
    THEN entry.content ELSE NoPost

\* redis_client.set(cache_key, ..., ex=REDIS_CACHE_TTL)
RedisSet(content, t) ==
    [content |-> content, expires_at |-> t + REDIS_CACHE_TTL]

PostSlots == {1, 2}
IdleRequest == [handler |-> "-", pc |-> "idle", doc |-> NoPost]
NoSettled == [version |-> 0, deleted |-> FALSE]
NoPostResponse ==
    [handler |-> "-", status |-> 0, source |-> "-", content |-> NoPost]
PostResponse(handler, status) ==
    [NoPostResponse EXCEPT !.handler = handler, !.status = status]

-----------------------------------------------------------------------------
(* ch16: the rate limiter.  rate_limit is a plain def dependency, so the    *)
(* requests of one client run it on separate threads of the thread pool; a  *)
(* thread can be preempted between any two accesses to rate_limit_store.    *)

HTTP_429_TOO_MANY_REQUESTS == 429

\* get_client_ip: the first address of X-Forwarded-For, else the peer's host
GetClientIp(request) ==
    IF request.forwarded /= <<>> THEN request.forwarded[1]
    ELSE request.host

\* the requests of the model: one client, directly and through a proxy
RateRequests ==
    {[forwarded |-> <<>>, host |-> "10.0.0.1"],
     [forwarded |-> <<"10.0.0.1", "10.0.0.9">>, host |-> "10.0.0.9"]}

\* [timestamp for timestamp in ... if current_time - timestamp < window]
InWindow(timestamps, current_time) ==
    SelectSeq(timestamps,
              LAMBDA timestamp :
                  current_time - timestamp < RATE_LIMIT_WINDOW_SECONDS)

\* retry_after = int(window - (current_time - oldest_request)) + 1
RetryAfter(timestamps, current_time) ==
    (RATE_LIMIT_WINDOW_SECONDS - (current_time - timestamps[1])) + 1

RateThreads == {1, 2}
IdleThread ==
    [pc |-> "idle", client_ip |-> "-", current_time |-> 0, kept |-> <<>>]
NoRateResponse == [status |-> 0, retry_after |-> 0]

\* how many requests of the history were let through in the window of length
\* RATE_LIMIT_WINDOW_SECONDS that ends at t
AcceptedInWindow(t) ==
    Cardinality({i \in DOMAIN accepted :
                    /\ t - RATE_LIMIT_WINDOW_SECONDS < accepted[i]
                    /\ accepted[i] <= t})

-----------------------------------------------------------------------------
(* ch20: the WebSocket ConnectionManager.  All handlers are coroutines of   *)
(* one event loop: a handler runs until it awaits, and every await of       *)
(* accept, send_text and receive_text is a point where others run.          *)

\* active_connections is a dict; it is modelled by its entry table: a new key
\* is appended, a deleted key leaves a dummy entry, a key that is assigned
\* again keeps its place.  (The table is not resized for so few insertions.)
Dummy == [client_id |-> "", websocket |-> 0]
ClientIds == {"ann", "bob"}
WebSockets == {1, 2, 3}

Live(d) == {i \in DOMAIN d : d[i] /= Dummy}
Used(d) == Cardinality(Live(d))
Registered(d) == {d[i].websocket : i \in Live(d)}
HasClient(d, client_id) == \E i \in Live(d) : d[i].client_id = client_id
SlotOf(d, client_id) == CHOOSE i \in Live(d) : d[i].client_id = client_id

\* self.active_connections[client_id] = websocket
Register(d, client_id, websocket) ==
    IF HasClient(d, client_id)
    THEN [d EXCEPT ![SlotOf(d, client_id)].websocket = websocket]
    ELSE Append(d, [client_id |-> client_id, websocket |-> websocket])

\* ConnectionManager.disconnect
Disconnect(d, client_id) ==
    IF HasClient(d, client_id)
    THEN [d EXCEPT ![SlotOf(d, client_id)] = Dummy]
    ELSE d

RECURSIVE DisconnectAll(_, _)
DisconnectAll(d, disconnected) ==
    IF disconnected = <<>> THEN d
    ELSE DisconnectAll(Disconnect(d, Head(disconnected)), Tail(disconnected))

\* ConnectionManager.get_online_users: the keys in insertion order
RECURSIVE OnlineUsers(_)
OnlineUsers(d) ==
    IF d = <<>> THEN <<>>
    ELSE IF Head(d) = Dummy THEN OnlineUsers(Tail(d))
    ELSE <<Head(d).client_id>> \o OnlineUsers(Tail(d))

\* iter(self.active_connections.items()) and next() on it: the iterator
\* remembers the size of the dict and how many entries it has yet to yield,
\* and raises RuntimeError when either no longer fits the dict
NewIterator(d) == [i |-> 1, di_used |-> Used(d), len |-> Used(d)]
IterNext(d, it) ==
    LET rest == {j \in Live(d) : j >= it.i} IN
    IF it.di_used /= Used(d)
    THEN [kind |-> "error", entry |-> Dummy, it |-> it]
    ELSE IF rest = {}
    THEN [kind |-> "stop", entry |-> Dummy, it |-> it]
    ELSE IF it.len = 0
    THEN [kind |-> "error", entry |-> Dummy, it |-> it]
    ELSE LET j == CHOOSE k \in rest : \A l \in rest : k <= l IN
         [kind |-> "item", entry |-> d[j],
          it |-> [it EXCEPT !.i = j + 1, !.len = it.len - 1]]

\* a broadcast in progress
NoBroadcast ==
    [state |-> "none", it |-> [i |-> 0, di_used |-> 0, len |-> 0],
     target |-> Dummy, exclude |-> "", disconnected |-> <<>>,
     sent |-> {}, failed |-> {}, initial |-> {}]
NewBroadcast(d, exclude) ==
    [NoBroadcast EXCEPT !.it = NewIterator(d), !.exclude = exclude,
                        !.initial = Registered(d)]

\* the for loop of broadcast up to its next await of send_text, to its end,
\* or to the RuntimeError of the iterator
RECURSIVE BroadcastRun(_, _)
BroadcastRun(d, b) ==
    LET r == IterNext(d, b.it) IN
    IF r.kind = "error" THEN [b EXCEPT !.state = "error"]
    ELSE IF r.kind = "stop" THEN [b EXCEPT !.state = "finished"]
    ELSE IF r.entry.client_id = b.exclude
    THEN BroadcastRun(d, [b EXCEPT !.it = r.it])
    ELSE [b EXCEPT !.state = "sending", !.it = r.it, !.target = r.entry]

IdleHandler == [pc |-> "closed", client_id |-> "", bc |-> NoBroadcast]
\* what a completed broadcast did: the websockets registered from its start
\* to its end that it never tried, the ones it removed though their send had
\* not failed, and the ones still registered though their send had failed
BroadcastDone(by, d, b) ==
    LET after == Registered(DisconnectAll(d, b.disconnected)) IN
    [by |-> by,
     skipped |-> (b.initial \cap Registered(d)) \ (b.sent \cup b.failed),
     removed |-> (Registered(d) \ after) \ b.failed,
     kept |-> after \cap b.failed]
NoBroadcastDone == [by |-> 0, skipped |-> {}, removed |-> {}, kept |-> {}]

\* where websocket_endpoint goes on when its broadcast returns
AfterBroadcast(pc) == IF pc = "leaving" THEN "done" ELSE "receiving"

\* the handlers that have registered and have not yet left
LiveHandlers ==
    {ws \in WebSockets : ws_handlers[ws].pc \in {"joining", "receiving", "talking"}}

-----------------------------------------------------------------------------
(* Initial state *)

IdleCall == [pc |-> "idle", func |-> "-", al |-> NoArgs, key |-> "-",
             dirty |-> FALSE]

\* what the key's entry is to a reader at time t
EntryState(st, k, t) ==
    IF k \notin DOMAIN st THEN "none"
    ELSE IF t < st[k].expires_at THEN "fresh" ELSE "expired"

\* the record of a step: the operation, its arguments, what it returned and
\* what it found (value, ttl: the value and the ttl given to a set,
\* had: the entry's state before a get, shortened: a set that replaced an
\* entry by one expiring earlier, follows: a get right after a
\* set of its key with ttl > 0, retry: a call whose previous call failed with
\* no set of the key since, late: a call that returns after another call
\* stored a result under its key while it was suspended)
Op(op, key, ret, count) ==
    [op |-> op, key |-> key, ret |-> ret, count |-> count,
     value |-> None, ttl |-> 0, had |-> "none", shortened |-> FALSE,
     follows |-> FALSE, late |-> FALSE,
     func |-> "-", al |-> NoArgs, invoked |-> FALSE, retry |-> FALSE,
     thrown |-> "-", exc |-> "-"]

Init ==
    /\ now = 0
    /\ store = <<>>
    /\ hits = 0
    /\ misses = 0
    /\ calls = [c \in CallIds |-> IdleCall]
    /\ last = Op("init", "-", None, 0)
    /\ writer = <<>>
    /\ cleared = {}
    /\ raised = {}
    /\ ngets = 0
    /\ nsince = 0
    /\ token = NoToken
    /\ given = NoData
    /\ tdata = NoTokenData
    /\ issued = [at |-> 0, delta |-> NoDelta]
    /\ fake_users_db = InitialUsers
    /\ fake_items_db = InitialItems
    /\ held = [u \in Logins |-> NoToken]
    /\ deleted = {}
    /\ resp = NoResponse
    /\ fake_db = <<>>
    /\ id_counter = 0
    /\ workers = [w \in Workers |-> IdleWorker]
    /\ item_resp = NoItemResponse
    /\ injected = <<>>
    /\ created = <<>>
    /\ removed = {}
    /\ post_doc = 1
    /\ post_cache = NoCache
    /\ post_reqs = [r \in PostSlots |-> IdleRequest]
    /\ post_settled = NoSettled
    /\ post_resp = NoPostResponse
    /\ rate_limit_store = <<>>
    /\ rate_threads = [w \in RateThreads |-> IdleThread]
    /\ accepted = <<>>
    /\ rate_resp = NoRateResponse
    /\ active_connections = <<>>
    /\ ws_handlers = [ws \in WebSockets |-> IdleHandler]
    /\ ws_open = {}
    /\ ws_last = NoBroadcastDone

-----------------------------------------------------------------------------
(* InMemoryCache: operations on the cache object *)

\* get(k) at the cache object
\* (CacheGetSilentEviction: a get that deletes an expired entry counts nothing)
CacheGetSilentEviction(k) ==
    /\ store' = StoreAfterGet(store, k, now)
    /\ hits' = IF CacheHit(store, k, now) THEN hits + 1 ELSE hits
    /\ misses' = IF k \notin DOMAIN store THEN misses + 1 ELSE misses
    /\ ngets' = ngets + 1
    /\ nsince' = nsince + 1
CacheGet(k) ==
    /\ store' = StoreAfterGet(store, k, now)
    /\ hits' = IF CacheHit(store, k, now) THEN hits + 1 ELSE hits
    /\ misses' = IF CacheHit(store, k, now) THEN misses ELSE misses + 1
    /\ ngets' = ngets + 1
    /\ nsince' = nsince + 1

\* set(k, v, ttl) at the cache object
CacheSet(k, v, ttl) ==
    /\ store' = StoreAfterSet(store, k, v, ttl, now)
    /\ UNCHANGED <<hits, misses, ngets, nsince>>

\* clear() at the cache object
CacheClearExpiredOnly ==
    /\ store' = [x \in DOMAIN store \ ExpiredKeys(store, now) |-> store[x]]
    /\ hits' = 0
    /\ misses' = 0
    /\ nsince' = 0
    /\ UNCHANGED ngets
CacheClear ==
    /\ store' = <<>>
    /\ hits' = 0
    /\ misses' = 0
    /\ nsince' = 0
    /\ UNCHANGED ngets

\* cleanup_expired() at the cache object
CacheCleanup ==
    /\ store' = [x \in DOMAIN store \ ExpiredKeys(store, now) |-> store[x]]
    /\ UNCHANGED <<hits, misses, ngets, nsince>>

\* cleanup_expired(): len(expired_keys)
CleanupReturn == Cardinality(ExpiredKeys(store, now))

\* the clock advances
Tick ==
    /\ now < MaxTime
    /\ now' = now + 1
    /\ last' = Op("tick", "-", None, 0)
    /\ UNCHANGED <<cacheVars, authVars, chainVars, appVars>>

-----------------------------------------------------------------------------
(* The cache object used directly, with the history of what was cleared *)

Get(k) ==
    /\ ngets < MaxGets
    /\ CacheGet(k)
    /\ last' = [Op("get", k, GetReturn(store, k, now), 0) EXCEPT
                   !.had = EntryState(store, k, now),
                   !.follows = (last.op = "set" /\ last.key = k /\ last.ttl > 0)]
    /\ UNCHANGED <<now, calls, writer, cleared, raised, authVars, chainVars,
                   appVars>>

Set(k, v, ttl) ==
    /\ CacheSet(k, v, ttl)
    /\ cleared' = {p \in cleared : p[1] /= k}
    /\ last' = [Op("set", k, None, 0) EXCEPT
                   !.value = v, !.ttl = ttl,
                   !.shortened = /\ k \in DOMAIN store
                                 /\ now + ttl < store[k].expires_at]
    /\ UNCHANGED <<now, calls, writer, raised, authVars, chainVars, appVars>>

Clear ==
    /\ CacheClear
    /\ cleared' = {<<k, store[k].expires_at>> : k \in DOMAIN store}
    /\ last' = Op("clear", "-", None, 0)
    /\ UNCHANGED <<now, calls, writer, raised, authVars, chainVars, appVars>>

CleanupExpired ==
    /\ CacheCleanup
    /\ last' = Op("cleanup", "-", None, CleanupReturn)
    /\ UNCHANGED <<now, calls, writer, cleared, raised, authVars, chainVars,
                   appVars>>

NextCache ==
    \/ \E k \in DirectKeys : Get(k)
    \/ \E k \in DirectKeys, v \in Values, ttl \in 0..MaxTtl : Set(k, v, ttl)
    \/ Clear
    \/ CleanupExpired
    \/ Tick

SpecCache == Init /\ [][NextCache]_vars

-----------------------------------------------------------------------------
(* cached(ttl).wrapper and the endpoints that clear and sweep the cache *)

\* `if cached_result is not None`
IsCached(cached_result) == cached_result /= None

\* the exception the wrapper lets out when the wrapped function raises e
Propagated(e) == e

\* every running call with key k has seen a set() of its key while suspended
MarkDirty(cs, k) ==
    [c \in CallIds |->
        IF cs[c].pc = "awaiting" /\ cs[c].key = k
        THEN [cs[c] EXCEPT !.dirty = TRUE] ELSE cs[c]]

\* wrapper, from its entry to `return cached_result` or to the await
CallStart(c, f, al) ==
    LET k == KeyOf(f, al)
        cached_result == GetReturn(store, k, now)
    IN  /\ calls[c].pc = "idle"
        /\ \A d \in CallIds : d < c => calls[d].pc /= "idle"
        /\ ngets < MaxGets
        /\ CacheGet(k)
        /\ writer' = [x \in DOMAIN store' |-> writer[x]]
        /\ calls' = [calls EXCEPT ![c] =
              IF IsCached(cached_result)
              THEN IdleCall
              ELSE [pc |-> "awaiting", func |-> f, al |-> al, key |-> k,
                    dirty |-> FALSE]]
        /\ last' = [Op("call", k, cached_result, 0) EXCEPT
                       !.func = f, !.al = al,
                       !.had = EntryState(store, k, now),
                       !.invoked = ~IsCached(cached_result),
                       !.retry = \E r \in raised :
                                    r.func = f /\ SameArgs(r.al, al) /\ r.clean]
        /\ raised' = {r \in raised : ~(r.func = f /\ SameArgs(r.al, al))}
        /\ UNCHANGED <<now, cleared, authVars, chainVars, appVars>>

\* wrapper, resumed with the wrapped function's result v
\* (CallReturnFirstWins: a call that finds a live entry under its key when it
\* resumes leaves it in place)
CallReturnFirstWins(c, v) ==
    LET k == calls[c].key IN
    /\ calls[c].pc = "awaiting"
    /\ IF CacheHit(store, k, now)
       THEN UNCHANGED <<store, hits, misses, ngets, nsince>>
       ELSE CacheSet(k, v, CachedTtl)
    /\ writer' = [x \in DOMAIN store' |->
                    IF x = k /\ ~CacheHit(store, k, now)
                    THEN [func |-> calls[c].func, al |-> calls[c].al]
                    ELSE writer[x]]
    /\ calls' = [MarkDirty(calls, k) EXCEPT ![c] = IdleCall]
    /\ raised' = {IF r.key = k THEN [r EXCEPT !.clean = FALSE] ELSE r : r \in raised}
    /\ last' = [Op("return", k, v, 0) EXCEPT
                   !.func = calls[c].func, !.al = calls[c].al,
                   !.late = calls[c].dirty]
    /\ UNCHANGED <<now, cleared, authVars, chainVars, appVars>>
CallReturn(c, v) ==
    LET k == calls[c].key IN
    /\ calls[c].pc = "awaiting"
    /\ CacheSet(k, v, CachedTtl)
    /\ writer' = [x \in DOMAIN store' |->
                    IF x = k THEN [func |-> calls[c].func, al |-> calls[c].al]
                    ELSE writer[x]]
    /\ calls' = [MarkDirty(calls, k) EXCEPT ![c] = IdleCall]
    /\ raised' = {IF r.key = k THEN [r EXCEPT !.clean = FALSE] ELSE r : r \in raised}
    /\ last' = [Op("return", k, v, 0) EXCEPT
                   !.func = calls[c].func, !.al = calls[c].al,
                   !.late = calls[c].dirty]
    /\ UNCHANGED <<now, cleared, authVars, chainVars, appVars>>

\* wrapper, resumed with the wrapped function raising e
CallRaiseCaching(c, e) ==
    LET k == calls[c].key IN
    /\ calls[c].pc = "awaiting"
    /\ CacheSet(k, e, CachedTtl)
    /\ writer' = [x \in DOMAIN store' |->
                    IF x = k THEN [func |-> calls[c].func, al |-> calls[c].al]
                    ELSE writer[x]]
    /\ calls' = [calls EXCEPT ![c] = IdleCall]
    /\ raised' = raised \cup {[func |-> calls[c].func, al |-> calls[c].al,
                               key |-> k, clean |-> ~calls[c].dirty]}
    /\ last' = [Op("raise", k, None, 0) EXCEPT
                   !.func = calls[c].func, !.al = calls[c].al,
                   !.thrown = e, !.exc = Propagated(e)]
    /\ UNCHANGED <<now, cleared, authVars, chainVars, appVars>>

CallRaise(c, e) ==
    LET k == calls[c].key IN
    /\ calls[c].pc = "awaiting"
    /\ calls' = [calls EXCEPT ![c] = IdleCall]
    /\ raised' = raised \cup {[func |-> calls[c].func, al |-> calls[c].al,
                               key |-> k, clean |-> ~calls[c].dirty]}
    /\ last' = [Op("raise", k, None, 0) EXCEPT
                   !.func = calls[c].func, !.al = calls[c].al,
                   !.thrown = e, !.exc = Propagated(e)]
    /\ UNCHANGED <<now, store, hits, misses, writer, cleared, ngets, nsince,
                   authVars, chainVars, appVars>>

\* POST /cache/clear
ClearCache ==
    /\ CacheClear
    /\ writer' = <<>>
    /\ last' = Op("clear", "-", None, 0)
    /\ UNCHANGED <<now, calls, cleared, raised, authVars, chainVars, appVars>>

\* POST /cache/cleanup
CleanupCache ==
    /\ CacheCleanup
    /\ writer' = [x \in DOMAIN store' |-> writer[x]]
    /\ last' = Op("cleanup", "-", None, CleanupReturn)
    /\ UNCHANGED <<now, calls, cleared, raised, authVars, chainVars, appVars>>

NextMemo ==
    \/ \E c \in CallIds, ck \in CallKinds : CallStart(c, ck[1], ck[2])
    \/ \E c \in CallIds, v \in Results : CallReturn(c, v)
    \/ \E c \in CallIds, e \in Exceptions : CallRaise(c, e)
    \/ ClearCache
    \/ CleanupCache
    \/ Tick

SpecMemo == Init /\ [][NextMemo]_vars

-----------------------------------------------------------------------------
(* Token codec: operations *)

\* a token is issued for data with the given expires_delta
Issue(data, delta) ==
    /\ token' = CreateAccessToken(data, delta, now)
    /\ given' = data
    /\ last' = Op("issue", "-", None, 0)
    /\ issued' = [at |-> now, delta |-> delta]
    /\ UNCHANGED <<now, tdata, cacheVars, chainVars, appVars>>

\* the latest token is presented to get_current_user
Verify ==
    /\ token /= NoToken
    /\ tdata' = DecodeTokenData(token, now)
    /\ last' = [Op("verify", "-", None, 0) EXCEPT !.follows = (last.op = "issue")]
    /\ UNCHANGED <<now, token, given, issued, cacheVars, chainVars, appVars>>

\* a minute passes
Minute ==
    /\ now < MaxMinutes
    /\ now' = now + 1
    /\ last' = Op("tick", "-", None, 0)
    /\ UNCHANGED <<cacheVars, authVars, chainVars, appVars>>

NextToken ==
    \/ \E data \in DataDicts, delta \in Deltas : Issue(data, delta)
    \/ Verify
    \/ Minute

SpecToken == Init /\ [][NextToken]_vars

-----------------------------------------------------------------------------
(* ch15: operations *)

\* POST /token
LoginForAccessToken(username, password, requested) ==
    LET user == AuthenticateUser(fake_users_db, username, password)
    IN  /\ IF user = NoUser
           THEN /\ resp' = [NoResponse EXCEPT
                               !.status = HTTP_401_UNAUTHORIZED,
                               !.body = "wrong login"]
                /\ UNCHANGED held
           ELSE /\ resp' = [NoResponse EXCEPT !.status = HTTP_200_OK,
                                              !.body = "login"]
                /\ held' = [held EXCEPT ![user.username] =
                               LoginToken(user, requested, now)]
        /\ last' = Op("login", "-", None, 0)
        /\ UNCHANGED <<now, fake_users_db, fake_items_db, deleted, cacheVars,
                       authVars, appVars>>

\* the endpoint after its dependency gave g: the body runs if g is a user;
\* failing is what the request fails of GuardOrder
Respond(ep, tok, username, g, failing) ==
    LET ok == g.status = HTTP_200_OK
        status ==
            IF ok /\ ep = "admin_delete_user"
            THEN DeleteStatus(fake_users_db, username, g.user)
            ELSE g.status
    IN  /\ ep = "create_item" => Len(fake_items_db) < MaxItems
        /\ fake_items_db' =
              IF ok /\ ep = "create_item"
              THEN ItemsAfterCreate(fake_items_db, g.user)
              ELSE fake_items_db
        /\ fake_users_db' =
              IF ok /\ ep = "admin_delete_user"
              THEN UsersAfterDelete(fake_users_db, username, g.user)
              ELSE fake_users_db
        /\ resp' = [status |-> status,
                    body |-> IF ~ok THEN g.detail
                             ELSE IF status = HTTP_400_BAD_REQUEST
                             THEN "delete self"
                             ELSE IF status = HTTP_404_NOT_FOUND
                             THEN "no such user"
                             ELSE ep,
                    forged |-> tok \in ForgedTokens,
                    first |-> FirstOf(failing),
                    masked |-> Cardinality(failing) > 1]
        /\ deleted' =
              IF ok /\ ep = "admin_delete_user" /\ status = HTTP_200_OK
              THEN deleted \cup {username} ELSE deleted
        /\ last' = Op("request", "-", None, 0)
        /\ UNCHANGED <<now, held, cacheVars, authVars, appVars>>

\* a request to a protected endpoint carrying tok; username is the path
\* parameter of admin_delete_user
Request(ep, tok, username) ==
    Respond(ep, tok, username, Guard(ep, fake_users_db, tok, now),
            Failing(ep, fake_users_db, tok, now))

\* the owner of the store marks a record as disabled
Deactivate(username) ==
    /\ username \in DOMAIN fake_users_db
    /\ ~fake_users_db[username].disabled
    /\ fake_users_db' = [fake_users_db EXCEPT ![username].disabled = TRUE]
    /\ last' = Op("deactivate", "-", None, 0)
    /\ UNCHANGED <<now, fake_items_db, held, deleted, resp, cacheVars,
                   authVars, appVars>>

\* time passes between two requests
Wait ==
    /\ now + ClockStep <= MaxAuthTime
    /\ now' = now + ClockStep
    /\ last' = Op("tick", "-", None, 0)
    /\ UNCHANGED <<cacheVars, authVars, chainVars, appVars>>

NextAuth ==
    \/ \E username \in LoginNames, password \in Passwords,
          requested \in ScopeRequests :
            LoginForAccessToken(username, password, requested)
    \/ \E ep \in Endpoints, tok \in Presentable :
          \E username \in PathParams(ep) : Request(ep, tok, username)
    \/ \E username \in Logins : Deactivate(username)
    \/ Wait

SpecAuth == Init /\ [][NextAuth]_vars

-----------------------------------------------------------------------------
(* ch18: operations, one request at a time *)

\* POST /items/ : a body that fails validation is answered 422 before the
\* handler runs
CreateItem(item) ==
    /\ id_counter < MaxId
    /\ IF ~ValidItem(item)
       THEN /\ item_resp' = ItemResponse("create", 0, HTTP_422_UNPROCESSABLE)
            /\ UNCHANGED <<fake_db, id_counter, created>>
       ELSE LET item_id == id_counter + 1
                after == Assign(fake_db, item_id, Stored(item_id, item))
            IN  /\ id_counter' = item_id
                /\ fake_db' = after
                /\ item_resp' =
                      [ItemResponse("create", item_id, HTTP_201_CREATED)
                          EXCEPT !.item = Lookup(after, item_id)]
                /\ created' = (item_id :> item) @@ created
    /\ UNCHANGED <<workers, injected, removed, itemFrame>>

\* GET /items/
ReadItems ==
    /\ item_resp' = [ItemResponse("read_items", 0, HTTP_200_OK)
                        EXCEPT !.items = fake_db]
    /\ UNCHANGED <<fake_db, id_counter, workers, injected, created, removed,
                   itemFrame>>

\* GET /items/{item_id}
ReadItem(item_id) ==
    /\ item_resp' =
          IF ~Has(fake_db, item_id)
          THEN ItemResponse("read_item", item_id, HTTP_404_NOT_FOUND)
          ELSE [ItemResponse("read_item", item_id, HTTP_200_OK)
                   EXCEPT !.item = Lookup(fake_db, item_id)]
    /\ UNCHANGED <<fake_db, id_counter, workers, injected, created, removed,
                   itemFrame>>

\* DELETE /items/{item_id}
DeleteItem(item_id) ==
    /\ IF ~Has(fake_db, item_id)
       THEN /\ item_resp' =
                  ItemResponse("delete_item", item_id, HTTP_404_NOT_FOUND)
            /\ UNCHANGED <<fake_db, removed>>
       ELSE /\ fake_db' = Pop(fake_db, item_id)
            /\ item_resp' =
                  [ItemResponse("delete_item", item_id, HTTP_200_OK)
                      EXCEPT !.message = Lookup(fake_db, item_id).name]
            /\ removed' = removed \cup {item_id}
    /\ UNCHANGED <<id_counter, workers, injected, created, itemFrame>>

\* app.dependency_overrides[get_db] = lambda: d, with a new dict d
OverrideGetDb(d) ==
    /\ \A w \in Workers : workers[w].pc = "idle"
    /\ fake_db' = d
    /\ injected' = d
    /\ created' = <<>>
    /\ removed' = {}
    /\ item_resp' = NoItemResponse
    /\ UNCHANGED <<id_counter, workers, itemFrame>>

NextItems ==
    \/ \E item \in ItemCreates : CreateItem(item)
    \/ ReadItems
    \/ \E item_id \in ItemIds : ReadItem(item_id)
    \/ \E item_id \in ItemIds : DeleteItem(item_id)
    \/ \E d \in InjectedDbs : OverrideGetDb(d)

SpecItems == Init /\ [][NextItems]_vars

-----------------------------------------------------------------------------
(* ch18: create_item on the thread pool.  The handler is a plain def, so two *)
(* requests run it on two threads; a thread can be preempted between the    *)
(* read and the write of `_id_counter["current"] += 1`, before the          *)
(* `return _id_counter["current"]` and before the insertion.                *)

\* a thread takes a validated request body and enters create_item
BeginCreate(w, item) ==
    /\ workers[w].pc = "idle"
    /\ ValidItem(item)
    /\ id_counter < MaxId
    /\ workers' = [workers EXCEPT ![w] =
                      [IdleWorker EXCEPT !.pc = "load",
                                         !.item = Stored(0, item)]]
    /\ UNCHANGED <<fake_db, id_counter, item_resp, injected, created,
                   removed, itemFrame>>

\* _next_id: `_id_counter["current"] += 1` reads the counter
LoadCounter(w) ==
    /\ workers[w].pc = "load"
    /\ workers' = [workers EXCEPT ![w].tmp = id_counter, ![w].pc = "store"]
    /\ UNCHANGED <<fake_db, id_counter, item_resp, injected, created,
                   removed, itemFrame>>

\* _next_id: `_id_counter["current"] += 1` writes the counter
StoreCounter(w) ==
    /\ workers[w].pc = "store"
    /\ id_counter' = workers[w].tmp + 1
    /\ workers' = [workers EXCEPT ![w].pc = "return"]
    /\ UNCHANGED <<fake_db, item_resp, injected, created, removed, itemFrame>>

\* _next_id: `return _id_counter["current"]`
ReturnId(w) ==
    /\ workers[w].pc = "return"
    /\ workers' = [workers EXCEPT ![w].item_id = id_counter,
                                  ![w].pc = "insert"]
    /\ UNCHANGED <<fake_db, id_counter, item_resp, injected, created,
                   removed, itemFrame>>

\* create_item: `db[item_id] = {...}` and `return db[item_id]`
InsertItem(w) ==
    LET item_id == workers[w].item_id
        after == Assign(fake_db, item_id, Stored(item_id, workers[w].item))
    IN  /\ workers[w].pc = "insert"
        /\ fake_db' = after
        /\ item_resp' = [ItemResponse("create", item_id, HTTP_201_CREATED)
                            EXCEPT !.item = Lookup(after, item_id)]
        /\ created' = (item_id :> workers[w].item) @@ created
        /\ workers' = [workers EXCEPT ![w] = IdleWorker]
        /\ UNCHANGED <<id_counter, injected, removed, itemFrame>>

NextCreate ==
    \/ \E w \in Workers, item \in ItemCreates : BeginCreate(w, item)
    \/ \E w \in Workers : LoadCounter(w)
    \/ \E w \in Workers : StoreCounter(w)
    \/ \E w \in Workers : ReturnId(w)
    \/ \E w \in Workers : InsertItem(w)
    \/ \E d \in InjectedDbs : OverrideGetDb(d)

SpecCreate == Init /\ [][NextCreate]_vars

-----------------------------------------------------------------------------
(* ch13: read_post, update_post and delete_post, from await to await *)

\* read_post up to `await redis_client.get`: a hit returns the cached post
ReadPostStart(r) ==
    LET cached_data == RedisGet(post_cache, now) IN
    /\ post_reqs[r].pc = "idle"
    /\ IF cached_data /= NoPost
       THEN /\ post_resp' =
                  [PostResponse("read_post", HTTP_200_OK) EXCEPT
                      !.source = "cache", !.content = cached_data]
            /\ UNCHANGED post_reqs
       ELSE /\ post_reqs' = [post_reqs EXCEPT ![r] =
                  [handler |-> "read_post", pc |-> "find", doc |-> NoPost]]
            /\ UNCHANGED post_resp
    /\ UNCHANGED <<now, post_doc, post_cache, post_settled, postFrame>>

\* read_post: `await collection.find_one`, 404 if there is no document
ReadPostFind(r) ==
    /\ post_reqs[r].handler = "read_post" /\ post_reqs[r].pc = "find"
    /\ IF post_doc = NoPost
       THEN /\ post_resp' = PostResponse("read_post", HTTP_404_NOT_FOUND)
            /\ post_reqs' = [post_reqs EXCEPT ![r] = IdleRequest]
       ELSE /\ post_reqs' = [post_reqs EXCEPT ![r].pc = "set",
                                              ![r].doc = post_doc]
            /\ UNCHANGED post_resp
    /\ UNCHANGED <<now, post_doc, post_cache, post_settled, postFrame>>

\* read_post: `await redis_client.set` and the response
ReadPostCache(r) ==
    /\ post_reqs[r].handler = "read_post" /\ post_reqs[r].pc = "set"
    /\ post_cache' = RedisSet(post_reqs[r].doc, now)
    /\ post_resp' = [PostResponse("read_post", HTTP_200_OK) EXCEPT
                        !.source = "database", !.content = post_reqs[r].doc]
    /\ post_reqs' = [post_reqs EXCEPT ![r] = IdleRequest]
    /\ UNCHANGED <<now, post_doc, post_settled, postFrame>>

\* update_post up to `await collection.update_one`, 404 if nothing matched
UpdatePostStart(r) ==
    /\ post_reqs[r].pc = "idle"
    /\ post_doc < MaxVersion
    /\ IF post_doc = NoPost
       THEN /\ post_resp' = PostResponse("update_post", HTTP_404_NOT_FOUND)
            /\ UNCHANGED <<post_doc, post_reqs>>
       ELSE /\ post_doc' = post_doc + 1
            /\ post_reqs' = [post_reqs EXCEPT ![r] =
                  [handler |-> "update_post", pc |-> "invalidate",
                   doc |-> post_doc + 1]]
            /\ UNCHANGED post_resp
    /\ UNCHANGED <<now, post_cache, post_settled, postFrame>>

\* delete_post up to `await collection.delete_one`, 404 if nothing was deleted
DeletePostStart(r) ==
    /\ post_reqs[r].pc = "idle"
    /\ IF post_doc = NoPost
       THEN /\ post_resp' = PostResponse("delete_post", HTTP_404_NOT_FOUND)
            /\ UNCHANGED <<post_doc, post_reqs>>
       ELSE /\ post_doc' = NoPost
            /\ post_reqs' = [post_reqs EXCEPT ![r] =
                  [handler |-> "delete_post", pc |-> "invalidate",
                   doc |-> NoPost]]
            /\ UNCHANGED post_resp
    /\ UNCHANGED <<now, post_cache, post_settled, postFrame>>

\* _invalidate_cache: `await redis_client.delete(cache_key)`; delete_post
\* returns after it, update_post goes on to read the document again
InvalidateCache(r) ==
    /\ post_reqs[r].pc = "invalidate"
    /\ post_cache' = NoCache
    /\ IF post_reqs[r].handler = "delete_post"
       THEN /\ post_resp' = PostResponse("delete_post", HTTP_204_NO_CONTENT)
            /\ post_settled' = [post_settled EXCEPT !.deleted = TRUE]
            /\ post_reqs' = [post_reqs EXCEPT ![r] = IdleRequest]
       ELSE /\ post_reqs' = [post_reqs EXCEPT ![r].pc = "refetch"]
            /\ UNCHANGED <<post_resp, post_settled>>
    /\ UNCHANGED <<now, post_doc, postFrame>>

\* update_post: `await collection.find_one` and the response; with the
\* document deleted meanwhile _post_document_to_response(None) raises
UpdatePostReturn(r) ==
    /\ post_reqs[r].handler = "update_post" /\ post_reqs[r].pc = "refetch"
    /\ post_resp' =
          IF post_doc = NoPost THEN PostResponse("update_post", 500)
          ELSE [PostResponse("update_post", HTTP_200_OK) EXCEPT
                   !.source = "database", !.content = post_doc]
    /\ post_settled' =
          [post_settled EXCEPT !.version =
              IF post_reqs[r].doc > @ THEN post_reqs[r].doc ELSE @]
    /\ post_reqs' = [post_reqs EXCEPT ![r] = IdleRequest]
    /\ UNCHANGED <<now, post_doc, post_cache, postFrame>>

\* time passes
PostTick ==
    /\ now + PostClockStep <= MaxPostTime
    /\ now' = now + PostClockStep
    /\ UNCHANGED <<postVars, postFrame>>

NextPosts ==
    \/ \E r \in PostSlots : ReadPostStart(r)
    \/ \E r \in PostSlots : ReadPostFind(r)
    \/ \E r \in PostSlots : ReadPostCache(r)
    \/ \E r \in PostSlots : UpdatePostStart(r)
    \/ \E r \in PostSlots : DeletePostStart(r)
    \/ \E r \in PostSlots : InvalidateCache(r)
    \/ \E r \in PostSlots : UpdatePostReturn(r)
    \/ PostTick

SpecPosts == Init /\ [][NextPosts]_vars

-----------------------------------------------------------------------------
(* ch16: rate_limit, one access to rate_limit_store at a time *)

\* rate_limit up to `if client_ip not in rate_limit_store`
RateEnter(w, request) ==
    LET client_ip == GetClientIp(request) IN
    /\ rate_threads[w].pc = "idle"
    /\ Len(accepted)
          + Cardinality({v \in RateThreads : rate_threads[v].pc /= "idle"})
          < MaxRequests
    /\ rate_threads' = [rate_threads EXCEPT ![w] =
          [pc |-> IF client_ip \in DOMAIN rate_limit_store
                  THEN "filter" ELSE "init",
           client_ip |-> client_ip, current_time |-> now, kept |-> <<>>]]
    /\ UNCHANGED <<now, rate_limit_store, accepted, rate_resp, rateFrame>>

\* rate_limit_store[client_ip] = []
RateInit(w) ==
    /\ rate_threads[w].pc = "init"
    /\ rate_limit_store' =
          (rate_threads[w].client_ip :> <<>>) @@ rate_limit_store
    /\ rate_threads' = [rate_threads EXCEPT ![w].pc = "filter"]
    /\ UNCHANGED <<now, accepted, rate_resp, rateFrame>>

\* the list comprehension over rate_limit_store[client_ip]
RateFilter(w) ==
    /\ rate_threads[w].pc = "filter"
    /\ rate_threads' = [rate_threads EXCEPT
          ![w].kept = InWindow(rate_limit_store[rate_threads[w].client_ip],
                               rate_threads[w].current_time),
          ![w].pc = "assign"]
    /\ UNCHANGED <<now, rate_limit_store, accepted, rate_resp, rateFrame>>

\* rate_limit_store[client_ip] = [...]
RateAssign(w) ==
    /\ rate_threads[w].pc = "assign"
    /\ rate_limit_store' =
          [rate_limit_store EXCEPT ![rate_threads[w].client_ip] =
              rate_threads[w].kept]
    /\ rate_threads' = [rate_threads EXCEPT ![w].pc = "check"]
    /\ UNCHANGED <<now, accepted, rate_resp, rateFrame>>

\* `if len(rate_limit_store[client_ip]) >= max_requests`: 429 with Retry-After
RateCheck(w) ==
    LET timestamps == rate_limit_store[rate_threads[w].client_ip] IN
    /\ rate_threads[w].pc = "check"
    /\ IF Len(timestamps) >= RATE_LIMIT_REQUESTS
       THEN /\ rate_resp' =
                  [status |-> HTTP_429_TOO_MANY_REQUESTS,
                   retry_after |->
                       RetryAfter(timestamps, rate_threads[w].current_time)]
            /\ rate_threads' = [rate_threads EXCEPT ![w] = IdleThread]
       ELSE /\ rate_threads' = [rate_threads EXCEPT ![w].pc = "append"]
            /\ UNCHANGED rate_resp
    /\ UNCHANGED <<now, rate_limit_store, accepted, rateFrame>>

\* rate_limit_store[client_ip].append(current_time), then the endpoint
RateAppend(w) ==
    /\ rate_threads[w].pc = "append"
    /\ rate_limit_store' =
          [rate_limit_store EXCEPT ![rate_threads[w].client_ip] =
              Append(@, rate_threads[w].current_time)]
    /\ accepted' = Append(accepted, rate_threads[w].current_time)
    /\ rate_resp' = [status |-> HTTP_200_OK, retry_after |-> 0]
    /\ rate_threads' = [rate_threads EXCEPT ![w] = IdleThread]
    /\ UNCHANGED <<now, rateFrame>>

\* a second passes
RateTick ==
    /\ now < MaxRateTime
    /\ now' = now + 1
    /\ UNCHANGED <<rateVars, rateFrame>>

NextRate ==
    \/ \E w \in RateThreads, request \in RateRequests : RateEnter(w, request)
    \/ \E w \in RateThreads : RateInit(w)
    \/ \E w \in RateThreads : RateFilter(w)
    \/ \E w \in RateThreads : RateAssign(w)
    \/ \E w \in RateThreads : RateCheck(w)
    \/ \E w \in RateThreads : RateAppend(w)
    \/ RateTick

SpecRate == Init /\ [][NextRate]_vars

-----------------------------------------------------------------------------
(* ch20: websocket_endpoint, from one await to the next *)

\* the handler ws goes on after a step of its broadcast: d is the dict and
\* b the broadcast after the step
Resume(ws, d, b) ==
    LET h == ws_handlers[ws] IN
    IF b.state = "sending"
    THEN /\ ws_handlers' = [ws_handlers EXCEPT ![ws].bc = b]
         /\ active_connections' = d
         /\ UNCHANGED <<ws_open, ws_last>>
    ELSE IF b.state = "error"
    THEN \* RuntimeError leaves broadcast and websocket_endpoint
         /\ ws_handlers' = [ws_handlers EXCEPT ![ws].pc = "crashed",
                                               ![ws].bc = NoBroadcast]
         /\ active_connections' = d
         /\ ws_open' = ws_open \ {ws}
         /\ UNCHANGED ws_last
    ELSE \* `for client_id in disconnected: self.disconnect(client_id)`
         /\ active_connections' = DisconnectAll(d, b.disconnected)
         /\ ws_handlers' = [ws_handlers EXCEPT ![ws].pc = AfterBroadcast(h.pc),
                                               ![ws].bc = NoBroadcast]
         /\ ws_last' = BroadcastDone(ws, d, b)
         /\ UNCHANGED ws_open

\* a client opens /ws/{client_id}: the handler awaits websocket.accept()
\* (the websockets are numbered in the order in which they are opened, and
\* "ann" is the id that is used first)
WsConnect(ws, client_id) ==
    /\ ws_handlers[ws].pc = "closed"
    /\ \A v \in WebSockets : v < ws => ws_handlers[v].pc /= "closed"
    /\ client_id = "bob" => \E v \in WebSockets : ws_handlers[v].client_id = "ann"
    /\ ws_handlers' = [ws_handlers EXCEPT ![ws].pc = "accepting",
                                          ![ws].client_id = client_id]
    /\ ws_open' = ws_open \cup {ws}
    /\ UNCHANGED <<active_connections, ws_last, wsFrame>>

\* accept returns: connect registers the websocket, the joining broadcast
\* starts
WsAccepted(ws) ==
    LET d == Register(active_connections, ws_handlers[ws].client_id, ws) IN
    /\ ws_handlers[ws].pc = "accepting"
    /\ ws_handlers' = [ws_handlers EXCEPT
          ![ws].pc = "joining",
          ![ws].bc = BroadcastRun(d, NewBroadcast(d, ""))]
    /\ active_connections' = d
    /\ UNCHANGED <<ws_open, ws_last, wsFrame>>

\* the send_text a broadcast was awaiting returns or raises; the loop goes on
BroadcastSend(ws) ==
    LET b == ws_handlers[ws].bc
        to == b.target
        c == IF to.websocket \in ws_open
             THEN [b EXCEPT !.sent = @ \cup {to.websocket}]
             ELSE [b EXCEPT !.failed = @ \cup {to.websocket},
                            !.disconnected = Append(@, to.client_id)]
    IN
    /\ b.state = "sending"
    /\ Resume(ws, active_connections, BroadcastRun(active_connections, c))
    /\ UNCHANGED wsFrame

\* receive_text returns a message: it is broadcast
WsReceiveText(ws) ==
    /\ ws_handlers[ws].pc = "receiving"
    /\ ws \in ws_open
    /\ ws_handlers' = [ws_handlers EXCEPT
          ![ws].pc = "talking",
          ![ws].bc = BroadcastRun(active_connections,
                                  NewBroadcast(active_connections, ""))]
    /\ UNCHANGED <<active_connections, ws_open, ws_last, wsFrame>>

\* the peer closes its connection
WsPeerClose(ws) ==
    /\ ws \in ws_open
    /\ ws \in LiveHandlers
    /\ ws_open' = ws_open \ {ws}
    /\ UNCHANGED <<active_connections, ws_handlers, ws_last, wsFrame>>

\* receive_text raises WebSocketDisconnect: disconnect, the leaving broadcast
WsDisconnect(ws) ==
    LET d == Disconnect(active_connections, ws_handlers[ws].client_id) IN
    /\ ws_handlers[ws].pc = "receiving"
    /\ ws \notin ws_open
    /\ \E h \in {[ws_handlers EXCEPT ![ws].pc = "leaving"]} :
          LET b == BroadcastRun(d, NewBroadcast(d, "")) IN
          IF b.state = "sending"
          THEN /\ ws_handlers' = [h EXCEPT ![ws].bc = b]
               /\ UNCHANGED ws_last
          ELSE /\ ws_handlers' = [h EXCEPT ![ws].pc = "done"]
               /\ ws_last' = BroadcastDone(ws, d, b)
    /\ active_connections' = d
    /\ UNCHANGED <<ws_open, wsFrame>>

NextWs ==
    \/ \E ws \in WebSockets, client_id \in ClientIds : WsConnect(ws, client_id)
    \/ \E ws \in WebSockets : WsAccepted(ws)
    \/ \E ws \in WebSockets : BroadcastSend(ws)
    \/ \E ws \in WebSockets : WsReceiveText(ws)
    \/ \E ws \in WebSockets : WsPeerClose(ws)
    \/ \E ws \in WebSockets : WsDisconnect(ws)

SpecWs == Init /\ [][NextWs]_vars

-----------------------------------------------------------------------------
(* InMemoryCache: properties (specification SpecCache) *)

\* C1: a get(key) performed when now >= expires_at of the stored entry
\* returns absent, removes the entry, adds exactly one to the miss counter
\* and leaves the hit counter unchanged.
C1_ExpiredEntryNeverServed ==
    [][\A k \in DirectKeys :
          (last'.op = "get" /\ Get(k)
              /\ k \in DOMAIN store /\ now >= store[k].expires_at)
          => /\ last'.ret = None
             /\ k \notin DOMAIN store'
             /\ misses' = misses + 1
             /\ hits' = hits]_vars

C1_Witness == last.op = "get" /\ last.had = "expired" /\ hits > 0

\* C2: a get(key) issued immediately after set(key, value, ttl) with ttl > 0
\* (same clock reading, nothing in between) returns exactly that value and is
\* counted as a hit, not as a miss.
C2_GetAfterSetReturnsValue ==
    [][\A k \in DirectKeys :
          (last.op = "set" /\ last.key = k /\ last.ttl > 0
              /\ last'.op = "get" /\ Get(k))
          => /\ last'.ret = last.value
             /\ hits' = hits + 1
             /\ misses' = misses]_vars

C2_Witness == last.op = "get" /\ last.follows /\ last.ret = "v2"

\* C3: set is last-write-wins: after set(k, v, ttl) the store holds for k
\* exactly the entry (v, now + ttl), whatever entry k had before (also a
\* later-expiring or an expired one); no other key's entry and neither
\* counter changes.
C3_SetOverwritesUnconditionally ==
    [][\A k \in DirectKeys, v \in Values, ttl \in 0..MaxTtl :
          (last'.op = "set" /\ last'.key = k /\ last'.value = v
              /\ last'.ttl = ttl /\ Set(k, v, ttl))
          => /\ DOMAIN store' = DOMAIN store \cup {k}
             /\ store'[k] = [value |-> v, expires_at |-> now + ttl]
             /\ \A j \in DOMAIN store \ {k} : store'[j] = store[j]
             /\ hits' = hits
             /\ misses' = misses]_vars

C3_Witness ==
    /\ last.op = "set" /\ last.shortened
    /\ DOMAIN store = DirectKeys
    /\ hits + misses > 0

\* C4: clear() removes every entry and resets both counters to zero; a get
\* of a key that was stored at the clear and not set again since returns
\* absent, whatever the cleared entry's remaining ttl was.
C4_ClearRemovesEverything ==
    [][/\ (last'.op = "clear" /\ Clear)
             => (store' = <<>> /\ hits' = 0 /\ misses' = 0)
       /\ \A p \in cleared :
             (last'.op = "get" /\ Get(p[1]))
             => (last'.ret = None /\ misses' = misses + 1 /\ hits' = hits)]_vars

C4_Witness ==
    /\ last.op = "get"
    /\ \E p \in cleared : p[1] = last.key /\ now < p[2]

\* C5: cleanup_expired() removes exactly the entries with expires_at <= now:
\* afterwards none is stored, every entry with expires_at > now is stored
\* unchanged, the returned count is the number of entries removed, and the
\* counters are unchanged.
C5_CleanupRemovesExactlyExpired ==
    [][(last'.op = "cleanup" /\ CleanupExpired)
          => /\ DOMAIN store' \subseteq DOMAIN store
             /\ \A k \in DOMAIN store' : store'[k].expires_at > now
             /\ \A k \in DOMAIN store :
                   store[k].expires_at > now
                   => (k \in DOMAIN store' /\ store'[k] = store[k])
             /\ last'.count =
                   Cardinality(DOMAIN store) - Cardinality(DOMAIN store')
             /\ hits' = hits
             /\ misses' = misses]_vars

C5_Witness == last.op = "cleanup" /\ last.count = 1 /\ DOMAIN store /= {}

-----------------------------------------------------------------------------
(* cached(): properties (specification SpecMemo) *)

\* C6: a call made while the cache still holds the unexpired result stored by
\* an earlier call of the same function with the same arguments is a hit: it
\* returns that stored value and does not invoke the wrapped function,
\* whatever value the wrapped function returned.
C6_SecondCallWithinTtlIsHit ==
    [][\A c \in CallIds, ck \in CallKinds :
          LET f == ck[1]
              al == ck[2]
              k == last'.key
          IN  (last'.op = "call" /\ last'.func = f /\ last'.al = al
                  /\ CallStart(c, f, al)
                  /\ k \in DOMAIN store /\ now < store[k].expires_at
                  /\ writer[k].func = f /\ SameArgs(writer[k].al, al))
              => /\ ~last'.invoked
                 /\ last'.ret = store[k].value
                 /\ calls'[c].pc = "idle"]_vars

\* C7: calls of one memoized function with different arguments use different
\* cache entries: a hit never returns a value cached by a call of the same
\* function with other arguments, and neither the lookup nor the caching of
\* the result for one argument list changes the entry of another.
C7_DifferentArgsIndependentEntries ==
    [][\A c \in CallIds, ck \in CallKinds :
          LET f == ck[1]
              al == ck[2]
              other(j) == writer[j].func = f /\ ~SameArgs(writer[j].al, al)
          IN  /\ (last'.op = "call" /\ last'.func = f /\ last'.al = al
                     /\ ~last'.invoked /\ CallStart(c, f, al))
                 => ~other(last'.key)
              /\ (\/ /\ last'.op = "call" /\ last'.func = f /\ last'.al = al
                     /\ CallStart(c, f, al)
                  \/ /\ last'.op = "return"
                     /\ calls[c].func = f /\ calls[c].al = al
                     /\ \E v \in Results : last'.ret = v /\ CallReturn(c, v))
                 => \A j \in DOMAIN store :
                       other(j) => (j \in DOMAIN store' /\ store'[j] = store[j])
         ]_vars

C7_Witness ==
    /\ last.op = "call" /\ ~last.invoked
    /\ \E j \in DOMAIN store \ {last.key} : writer[j].func = last.func

\* C8: cache keys are namespaced by function identity: a hit of one function's
\* call never returns an entry written by a call of another function.
C8_KeysNamespacedByFunction ==
    [][\A c \in CallIds, ck \in CallKinds :
          (last'.op = "call" /\ last'.func = ck[1] /\ last'.al = ck[2]
              /\ ~last'.invoked /\ CallStart(c, ck[1], ck[2]))
          => writer[last'.key].func = ck[1]]_vars

-----------------------------------------------------------------------------
(* Token codec: properties (specification SpecToken) *)

\* C10: a token issued for a subject and a scope list and verified
\* immediately, before its expiry and with the same secret, decodes to the
\* subject and the scopes it was issued for.
C10_TokenRoundTrip ==
    [][(last.op = "issue" /\ last'.op = "verify" /\ Verify
           /\ now < token.payload["exp"])
          => /\ tdata'.status = 200
             /\ tdata'.username = given["sub"]
             /\ tdata'.scopes = PayloadGet(given, "scopes", <<>>)]_vars

C10_Witness ==
    /\ last.op = "verify" /\ last.follows
    /\ now > 0 /\ now < token.payload["exp"]
    /\ tdata.username = "bob"
    /\ Len(tdata.scopes) = 2

\* C11: a token issued at time t0 with the time-to-live T the caller passed
\* (a zero duration included) fails verification with the expired error at
\* every time now >= t0 + T, and does not fail for expiry at any earlier time.
C11_ExpiredFromIssuePlusTtl ==
    [][(last'.op = "verify" /\ Verify /\ issued.delta.given)
          => LET T == issued.delta.minutes
             IN  /\ now >= issued.at + T
                    => tdata'.error = "ExpiredSignatureError"
                 /\ now < issued.at + T
                    => tdata'.error /= "ExpiredSignatureError"]_vars

-----------------------------------------------------------------------------
(* ch15 authorization chain: properties (specification SpecAuth) *)

\* C12: a token whose payload or signature was altered after it was issued,
\* or that was signed with another secret, never verifies: decoding fails
\* with the invalid-token error (JWTError), every endpoint answers 401 with
\* the credentials error, get_user is not called with anything from the
\* token, and no user is handed to the endpoint.
C12_TamperedTokenRejected ==
    /\ \A tok \in ForgedTokens :
          /\ DecodeTokenData(tok, now).error = "JWTError"
          /\ \A ep \in Endpoints :
                LET g == Guard(ep, fake_users_db, tok, now)
                IN  /\ g.status = HTTP_401_UNAUTHORIZED
                    /\ g.detail = "credentials"
                    /\ g.lookup = "-"
                    /\ g.user = None
    /\ resp.forged
          => (resp.status = HTTP_401_UNAUTHORIZED /\ resp.body = "credentials")

C12_Witness ==
    /\ resp.forged
    /\ resp.status = HTTP_401_UNAUTHORIZED
    /\ \E u \in Logins :
          /\ held[u] /= NoToken
          /\ DecodeTokenData(held[u], now).status = HTTP_200_OK
          /\ u \in DOMAIN fake_users_db

\* C13: the guards are tested in the order token present, token valid, user
\* exists, user active, required scopes and, on role-gated endpoints, the
\* role last: a request is answered with the failure of the first guard in
\* that order that it fails, whatever later guards it fails too, and it is
\* authorized when it fails none.
C13_FirstFailingGuardDecides ==
    /\ \A ep \in Endpoints, tok \in Presentable :
          LET g == Guard(ep, fake_users_db, tok, now)
              failing == Failing(ep, fake_users_db, tok, now)
              first == FirstOf(failing)
          IN  IF failing = {}
              THEN g.status = HTTP_200_OK
              ELSE /\ <<g.status, g.detail>> = FailureOf(GuardOrder[first])
                   /\ (g.lookup = "-") <=> (first <= 2)
    /\ resp.first > 0
          => <<resp.status, resp.body>> = FailureOf(GuardOrder[resp.first])

C13_Witness ==
    /\ resp.masked
    /\ resp.first = 4
    /\ resp.status = HTTP_400_BAD_REQUEST
    /\ resp.body = "disabled"

\* C14: a request whose token is missing, invalid, expired or without a
\* subject, or whose subject has no record in the user store at the time of
\* the request, is answered 401 and no user is handed to the endpoint; a
\* user whom admin_delete_user removed stays removed, and every request that
\* carries the token the user still holds is answered 401.
C14_NoRecordIsUnauthenticated ==
    /\ \A ep \in Endpoints, tok \in Presentable :
          (~TokenValid(tok, now) \/ ~UserExists(fake_users_db, tok))
          => LET g == Guard(ep, fake_users_db, tok, now)
             IN  g.status = HTTP_401_UNAUTHORIZED /\ g.user = None
    /\ \A u \in deleted :
          /\ u \notin DOMAIN fake_users_db
          /\ \A ep \in Endpoints :
                Guard(ep, fake_users_db, held[u], now).status
                    = HTTP_401_UNAUTHORIZED
    /\ resp.first \in {1, 2, 3} => resp.status = HTTP_401_UNAUTHORIZED

C14_Witness ==
    /\ resp.first = 3
    /\ resp.status = HTTP_401_UNAUTHORIZED
    /\ ~resp.forged
    /\ \E u \in deleted :
          /\ held[u] /= NoToken
          /\ TokenValid(held[u], now)

\* C15: a request with a valid, unexpired token whose subject has a record
\* that is deactivated is answered with the Forbidden status (403), on every
\* endpoint.
C15_DeactivatedIsForbidden ==
    \A ep \in Endpoints, tok \in Presentable :
        ( /\ TokenValid(tok, now)
          /\ UserExists(fake_users_db, tok)
          /\ ~UserActive(fake_users_db, tok) )
        => Guard(ep, fake_users_db, tok, now).status = HTTP_403_FORBIDDEN

\* C16: a request of an existing, active user with a valid token that lacks
\* a scope the endpoint requires is answered with the Forbidden status (403),
\* not with the status of an unauthenticated request (401), and the endpoint
\* body does not run (no user is handed to it).
C16_MissingScopeIsForbidden ==
    \A ep \in Endpoints, tok \in Presentable :
        ( /\ TokenValid(tok, now)
          /\ UserExists(fake_users_db, tok)
          /\ UserActive(fake_users_db, tok)
          /\ ~ScopeSatisfied(ep, tok) )
        => LET g == Guard(ep, fake_users_db, tok, now)
           IN  /\ g.status = HTTP_403_FORBIDDEN
               /\ g.status /= HTTP_401_UNAUTHORIZED
               /\ g.user = None

\* C17: an endpoint behind role_required hands a user to its body only if the
\* role of the token's subject, as the store has it at the time of the
\* request, is an allowed one; an authenticated, active user with another role
\* is answered 403, and a request answered 403 leaves the user store and the
\* item store as they were; the user store changes in a request only by the
\* body of admin_delete_user.
C17_RoleGateKeepsBodyAndStores ==
    /\ [](\A ep \in RoleGated, tok \in Presentable :
            LET g == Guard(ep, fake_users_db, tok, now)
            IN  /\ g.status = HTTP_200_OK
                   => /\ g.user = tok.payload["sub"]
                      /\ fake_users_db[g.user].role \in AllowedRoles(ep)
                /\ ( /\ TokenValid(tok, now)
                     /\ UserExists(fake_users_db, tok)
                     /\ UserActive(fake_users_db, tok)
                     /\ fake_users_db[tok.payload["sub"]].role
                            \notin AllowedRoles(ep) )
                   => /\ g.status = HTTP_403_FORBIDDEN
                      /\ g.user = None)
    /\ [][last'.op = "request"
             => /\ resp'.status = HTTP_403_FORBIDDEN
                   => /\ resp'.body = "role"
                      /\ UNCHANGED <<fake_users_db, fake_items_db, deleted>>
                /\ fake_users_db' /= fake_users_db
                   => /\ resp'.body = "admin_delete_user"
                      /\ resp'.status = HTTP_200_OK]_vars

C17_Witness ==
    /\ last.op = "request"
    /\ resp.status = HTTP_403_FORBIDDEN
    /\ resp.first = 6
    /\ ~resp.masked
    /\ ~resp.forged
    /\ \E u \in Logins :
          /\ u \in DOMAIN fake_users_db
          /\ fake_users_db[u].role \notin {"admin"}
          /\ held[u] /= NoToken

\* C18: every token a client got from the login endpoint names its user as
\* subject and carries only scopes the record of that user had when the token
\* was issued, whatever the login asked for; the scopes of a record never
\* change while it is in the store, and a login hands a token to nobody but
\* the user it authenticated.
C18_GrantedScopesWithinUserScopes ==
    /\ [](\A u \in Logins :
            held[u] /= NoToken
            => /\ held[u].payload["sub"] = u
               /\ \A i \in DOMAIN held[u].payload["scopes"] :
                     InList(held[u].payload["scopes"][i],
                            InitialUsers[u].scopes))
    /\ [][/\ \A u \in DOMAIN fake_users_db' :
                /\ u \in DOMAIN fake_users_db
                /\ fake_users_db'[u].scopes = fake_users_db[u].scopes
                /\ fake_users_db[u].scopes = InitialUsers[u].scopes
          /\ \A u \in Logins :
                held'[u] /= held[u]
                => /\ last'.op = "login"
                   /\ resp'.status = HTTP_200_OK
                   /\ u \in DOMAIN fake_users_db]_vars

C18_Witness ==
    /\ last.op = "login"
    /\ resp.status = HTTP_200_OK
    /\ held["user1"] /= NoToken
    /\ held["user1"].payload["scopes"] = <<"items:write", "items:read">>
    /\ ~InList("admin", InitialUsers["user1"].scopes)
    /\ \E r \in ScopeRequests : InList("admin", r)

\* C19: on an endpoint guarded by scopes, a request with a valid, unexpired
\* token of an existing, active subject whose scopes include all the endpoint
\* requires is answered 200 and the endpoint gets the record of exactly the
\* token's subject; with a token that holds only items:read, read_items
\* succeeds and create_item is answered with the Forbidden status (403).
C19_AuthorizedAndReadOnlyToken ==
    \A tok \in Presentable :
        ( /\ TokenValid(tok, now)
          /\ UserExists(fake_users_db, tok)
          /\ UserActive(fake_users_db, tok) )
        => /\ \A ep \in Endpoints \ RoleGated :
                 ScopeSatisfied(ep, tok)
                 => LET g == Guard(ep, fake_users_db, tok, now)
                    IN  /\ g.status = HTTP_200_OK
                        /\ g.user = tok.payload["sub"]
                        /\ g.lookup = tok.payload["sub"]
           /\ tok.payload["scopes"] = <<"items:read">>
                 => /\ Guard("read_items", fake_users_db, tok, now).status
                          = HTTP_200_OK
                    /\ Guard("create_item", fake_users_db, tok, now).status
                          = HTTP_403_FORBIDDEN

\* C20: whether a token passes verification at a given time is the same
\* whatever the user store holds: for the store as it is and for every other
\* store, the dependency gets the same verification result, which is what
\* decoding gives from the token, the key and the time alone; so a token a user holds
\* verifies until its exp even when the user has been deactivated or deleted
\* since.
C20_VerificationIgnoresUserStore ==
    /\ fake_users_db \in UserStores
    /\ \A tok \in Presentable \ {NoToken} :
          LET verified == DecodeTokenData(tok, now).status
          IN  \A ep \in Endpoints, db \in UserStores :
                  Guard(ep, db, tok, now).decoded = verified
    /\ \A u \in Logins :
          (held[u] /= NoToken /\ now <= held[u].payload["exp"])
          => /\ TokenValid(held[u], now)
             /\ \A db \in UserStores :
                   GetCurrentUser(db, held[u], <<>>, now).decoded
                       = HTTP_200_OK

C20_Witness ==
    /\ last.op = "request"
    /\ resp.first = 4
    /\ resp.body = "disabled"
    /\ ~resp.forged
    /\ \E u \in Logins :
          /\ u \in DOMAIN fake_users_db
          /\ fake_users_db[u].disabled
          /\ held[u] /= NoToken
          /\ TokenValid(held[u], now)
          /\ GetCurrentUser(fake_users_db, held[u], <<>>, now).decoded
                 = HTTP_200_OK
          /\ GetCurrentUser(fake_users_db, held[u], <<>>, now).status
                 = HTTP_400_BAD_REQUEST

-----------------------------------------------------------------------------
(* InMemoryCache, further properties (specification SpecCache) *)

\* C23: a get adds one to hits and nothing to misses when it finds a live
\* entry and returns its value, and one to misses and nothing to hits when it
\* returns None for an absent or expired entry; set and cleanup_expired leave
\* both counters alone; so hits + misses, which is stats' total_requests, is
\* the number of gets since the last clear, or since construction.
C23_CountersCountGets ==
    /\ [](/\ hits + misses = nsince
          /\ StatsTotalRequests = nsince
          /\ hits >= 0 /\ misses >= 0)
    /\ [][/\ last'.op = "get"
             => IF last'.had = "fresh"
                THEN /\ hits' = hits + 1 /\ misses' = misses
                     /\ last'.ret = store[last'.key].value
                ELSE /\ misses' = misses + 1 /\ hits' = hits
                     /\ last'.ret = None
          /\ last'.op \in {"set", "cleanup"}
             => UNCHANGED <<hits, misses>>
          /\ last'.op = "clear" => hits' = 0 /\ misses' = 0]_vars

C23_Witness ==
    /\ last.op = "get"
    /\ last.had = "expired"
    /\ hits > 0
    /\ misses > 0
    /\ ngets > nsince
    /\ nsince = hits + misses

\* C24: an entry whose expires_at has passed stays in the store, unchanged
\* and counted in stats' total_entries, through every step that is not a get
\* or a set of its own key, a cleanup_expired or a clear; gets and sets of
\* other keys and the passing of time never remove it.
C24_ExpiredEntriesStayUntilSwept ==
    [][\A k \in DOMAIN store :
          ( /\ ~Fresh(now, store[k].expires_at)
            /\ ~(last'.op \in {"get", "set"} /\ last'.key = k)
            /\ last'.op \notin {"cleanup", "clear"} )
          => /\ k \in DOMAIN store'
             /\ store'[k] = store[k]
             /\ ~Fresh(now', store'[k].expires_at)]_vars

\* every key of the model holds an entry that has expired, one of them since
\* before the latest step, a set of another key
C24_Witness ==
    /\ DOMAIN store = DirectKeys
    /\ \A k \in DirectKeys : ~Fresh(now, store[k].expires_at)
    /\ StatsTotalEntries = Cardinality(DirectKeys)
    /\ last.op = "set"
    /\ last.key \in DirectKeys
    /\ ngets > 0
    /\ \E k \in DirectKeys \ {last.key} : store[k].expires_at < now

-----------------------------------------------------------------------------
(* cached(): overlapping calls (specification SpecMemo) *)

\* C29: a call that starts while another call with the same cache key is
\* suspended in the wrapped function, no result having been stored under the
\* key since that call began, is not served from the cache: it invokes the
\* wrapped function too and leaves the suspended call alone; every call
\* returns the result of its own invocation and stores it, so that once both
\* have returned the key has one entry, with the value and the expiry the
\* later of the two sets wrote.
C29_OverlappingCallsBothInvoke ==
    [][\A c \in CallIds :
          /\ \A ck \in CallKinds :
                ( /\ last'.op = "call" /\ last'.func = ck[1]
                  /\ last'.al = ck[2]
                  /\ CallStart(c, ck[1], ck[2])
                  /\ \E d \in CallIds \ {c} :
                        /\ calls[d].pc = "awaiting"
                        /\ calls[d].key = last'.key
                        /\ ~calls[d].dirty )
                => /\ last'.invoked
                   /\ calls'[c].pc = "awaiting"
                   /\ \A d \in CallIds \ {c} : calls'[d] = calls[d]
          /\ \A v \in Results :
                (last'.op = "return" /\ last'.ret = v /\ CallReturn(c, v))
                => LET k == calls[c].key
                   IN  /\ last'.key = k
                       /\ k \in DOMAIN store'
                       /\ store'[k] =
                            [value |-> v, expires_at |-> now + CachedTtl]
                       /\ \A j \in DOMAIN store' \ {k} :
                             j \in DOMAIN store /\ store'[j] = store[j]
                       /\ \A d \in CallIds \ {c} :
                             calls[d].pc = "awaiting"
                             => calls'[d].pc = "awaiting"]_vars

\* the second of two overlapping calls has returned, after time has passed
\* since the first stored its result: the entry is the second call's
C29_Witness ==
    /\ last.op = "return"
    /\ last.late
    /\ \A c \in CallIds : calls[c].pc = "idle"
    /\ store[last.key].value = last.ret
    /\ store[last.key].expires_at = now + CachedTtl
    /\ now > 0
    /\ misses >= 2

-----------------------------------------------------------------------------
(* ch18 item API: properties (specification SpecItems) *)

\* C21: a DELETE of an id in the store is answered 200, removes that item and
\* leaves every other item as it was; a GET or DELETE of an id that is not in
\* the store is answered 404 and leaves the store as it was; and an id that
\* has been deleted from the store is never in it again, whatever is created
\* later, so that every later GET or DELETE of it is answered 404.
C21_DeletedIdStaysGone ==
    /\ [](removed \cap Ids(fake_db) = {})
    /\ [][\A item_id \in ItemIds :
             /\ (item_resp'.op = "delete_item"
                    /\ item_resp'.item_id = item_id /\ DeleteItem(item_id))
                => IF Has(fake_db, item_id)
                   THEN /\ item_resp'.status = HTTP_200_OK
                        /\ Ids(fake_db') = Ids(fake_db) \ {item_id}
                        /\ Len(fake_db') = Len(fake_db) - 1
                        /\ \A j \in Ids(fake_db') :
                              Lookup(fake_db', j) = Lookup(fake_db, j)
                   ELSE /\ item_resp'.status = HTTP_404_NOT_FOUND
                        /\ fake_db' = fake_db
             /\ (item_resp'.op = "read_item"
                    /\ item_resp'.item_id = item_id /\ ReadItem(item_id))
                => /\ fake_db' = fake_db
                   /\ ~Has(fake_db, item_id)
                         => item_resp'.status = HTTP_404_NOT_FOUND
             /\ (item_resp'.op \in {"read_item", "delete_item"}
                    /\ item_resp'.item_id = item_id
                    /\ (ReadItem(item_id) \/ DeleteItem(item_id))
                    /\ item_id \in removed)
                => item_resp'.status = HTTP_404_NOT_FOUND]_vars

\* C22: in a store that started empty, after any sequence of creates and
\* deletes, the store holds one item for each create that was accepted and
\* not deleted since, and nothing else; GET /items/ returns exactly these
\* items; a create that fails validation is answered 422 and adds nothing; an
\* accepted create adds one item and returns it; and GET /items/{id} with an
\* id a create returned, not deleted since, returns the name, description and
\* price given to that create.
C22_ListIsCreatedMinusDeleted ==
    /\ [](injected = <<>>
          => /\ Ids(fake_db) = (DOMAIN created) \ removed
             /\ Len(fake_db) = Cardinality(Ids(fake_db))
             /\ \A i \in Ids(fake_db) :
                   Lookup(fake_db, i) = Stored(i, created[i]))
    /\ [][injected = <<>>
          => /\ (item_resp'.op = "read_items" /\ ReadItems)
                => /\ item_resp'.status = HTTP_200_OK
                   /\ {item_resp'.items[n] : n \in DOMAIN item_resp'.items}
                         = {Stored(i, created[i]) :
                              i \in (DOMAIN created) \ removed}
                   /\ Len(item_resp'.items)
                         = Cardinality((DOMAIN created) \ removed)
             /\ \A item \in ItemCreates :
                   (item_resp'.op = "create" /\ CreateItem(item))
                   => IF item.price > 0 /\ item.name /= ""
                      THEN /\ item_resp'.status = HTTP_201_CREATED
                           /\ Len(fake_db') = Len(fake_db) + 1
                           /\ item_resp'.item_id \notin DOMAIN created
                           /\ item_resp'.item
                                 = Stored(item_resp'.item_id, item)
                      ELSE /\ item_resp'.status = HTTP_422_UNPROCESSABLE
                           /\ fake_db' = fake_db
             /\ \A item_id \in (DOMAIN created) \ removed :
                   (item_resp'.op = "read_item"
                       /\ item_resp'.item_id = item_id /\ ReadItem(item_id))
                   => /\ item_resp'.status = HTTP_200_OK
                      /\ item_resp'.item.id = item_id
                      /\ item_resp'.item.name = created[item_id].name
                      /\ item_resp'.item.description
                            = created[item_id].description
                      /\ item_resp'.item.price = created[item_id].price]_vars

\* GET /items/ after two creates and the delete of the first item
C22_Witness ==
    /\ injected = <<>>
    /\ item_resp.op = "read_items"
    /\ Len(item_resp.items) = 1
    /\ item_resp.items[1].id = 2
    /\ item_resp.items[1].description = "blue"
    /\ removed = {1}
    /\ DOMAIN created = {1, 2}

-----------------------------------------------------------------------------
(* ch18 create_item on the thread pool (specification SpecCreate) *)

\* C30: the id under which create_item inserts is not a key of the store at
\* the moment of the insertion and has not been the id of an earlier create,
\* so the insertion makes the store one item longer and changes no stored
\* item; this with creates running on two threads and with a store injected
\* pre-populated.
C30_CreateNeverOverwrites ==
    [][\A w \in Workers :
          (item_resp'.op = "create" /\ workers[w].pc = "insert"
              /\ InsertItem(w))
          => /\ ~Has(fake_db, workers[w].item_id)
             /\ workers[w].item_id \notin DOMAIN created
             /\ Len(fake_db') = Len(fake_db) + 1
             /\ \A i \in Ids(fake_db) :
                   Lookup(fake_db', i) = Lookup(fake_db, i)]_vars

-----------------------------------------------------------------------------
(* ch13 post cache (specification SpecPosts) *)

\* C25: a read_post that starts after an update_post or a delete_post of the
\* post has returned never returns from the cache a content older than that
\* update, nor a post that was deleted; and whenever no request for the post
\* is in flight, a cached copy that has not expired equals the stored
\* document.
C25_CacheNeverStaleAfterWrite ==
    /\ []((\A r \in PostSlots : post_reqs[r].pc = "idle")
          => \/ RedisGet(post_cache, now) = NoPost
             \/ RedisGet(post_cache, now) = post_doc)
    /\ [][\A r \in PostSlots :
             (post_reqs[r].pc = "idle" /\ ReadPostStart(r)
                 /\ post_resp'.handler = "read_post"
                 /\ RedisGet(post_cache, now) /= NoPost)
             => /\ post_resp'.source = "cache"
                /\ post_resp'.content >= post_settled.version
                /\ ~post_settled.deleted]_vars

-----------------------------------------------------------------------------
(* ch16 rate limiter (specification SpecRate) *)

\* C26: in every window of RATE_LIMIT_WINDOW_SECONDS at most
\* RATE_LIMIT_REQUESTS requests of a client are let through, also when its
\* requests run at the same time; the list recorded for a client never holds
\* more than RATE_LIMIT_REQUESTS timestamps; a request that finds the limit
\* reached is answered 429 with a Retry-After of at least 1 and is not
\* recorded.
C26_AtMostLimitPerWindow ==
    /\ [](/\ \A t \in 0..MaxRateTime :
                AcceptedInWindow(t) <= RATE_LIMIT_REQUESTS
          /\ \A ip \in DOMAIN rate_limit_store :
                Len(rate_limit_store[ip]) <= RATE_LIMIT_REQUESTS
          /\ rate_resp.status = HTTP_429_TOO_MANY_REQUESTS
                => rate_resp.retry_after >= 1)
    /\ [][\A w \in RateThreads :
             (rate_threads[w].pc = "check" /\ RateCheck(w)
                 /\ Len(rate_limit_store[rate_threads[w].client_ip])
                        >= RATE_LIMIT_REQUESTS)
             => /\ rate_resp'.status = HTTP_429_TOO_MANY_REQUESTS
                /\ rate_limit_store' = rate_limit_store
                /\ accepted' = accepted]_vars

-----------------------------------------------------------------------------
(* ch20 ConnectionManager (specification SpecWs) *)

\* C27: a broadcast always completes: no handler is ever ended by an error of
\* the iteration over active_connections, whatever connects or disconnects
\* while the broadcast awaits a send.  A completed broadcast has tried every
\* client that stayed registered from its start to its end, has removed the
\* clients whose send failed and has removed no other client.
C27_BroadcastCompletesAndReachesAll ==
    /\ \A ws \in WebSockets : ws_handlers[ws].pc /= "crashed"
    /\ ws_last.skipped = {}
    /\ ws_last.removed = {}
    /\ ws_last.kept = {}

\* C28: every websocket whose handler is in its receive loop, and whose peer
\* has not closed, is the websocket registered under its client_id; and
\* get_online_users lists exactly the client ids with a live handler: every
\* id it lists belongs to a handler that has registered and not yet left, and
\* the id of every such handler whose peer has not closed is listed.  (Stated
\* for the states in which no handler has been ended by an error.)
C28_RegistrationMatchesHandlers ==
    (\E ws \in WebSockets : ws_handlers[ws].pc = "crashed") \/
    /\ \A ws \in WebSockets :
          (ws_handlers[ws].pc \in {"receiving", "talking"} /\ ws \in ws_open)
          => \E i \in Live(active_connections) :
                active_connections[i] =
                    [client_id |-> ws_handlers[ws].client_id, websocket |-> ws]
    /\ LET online == {OnlineUsers(active_connections)[i] :
                          i \in DOMAIN OnlineUsers(active_connections)}
       IN /\ online \subseteq {ws_handlers[ws].client_id : ws \in LiveHandlers}
          /\ {ws_handlers[ws].client_id : ws \in LiveHandlers \cap ws_open}
                \subseteq online

====
